---- MODULE Spec2Model ----
(***************************************************************************)
(* A model of the torrent access of vlc-torrent: the piece-streaming       *)
(* controller of TorrentAccess (SelectPieces, ReadNextPiece and the        *)
(* handlers run by the event pump), its session driver (Run) and its       *)
(* destructor, together with the torrent engine they talk to.              *)
(*                                                                         *)
(* Threads: the consumer (the player's access thread: Block, Seek, Close), *)
(* the driver (TorrentAccess::Run), the engine (libtorrent, which answers  *)
(* requests with alerts) and the auxiliary task that saves the DHT state.  *)
(***************************************************************************)
EXTENDS Integers, Sequences, FiniteSets, TLC

(***************************************************************************)
(* Bounds of the model.                                                    *)
(***************************************************************************)
NumPieces == 3      \* metadata.num_pieces()
PieceSize == 2      \* metadata.piece_length(), in bytes
MaxSeeks  == 1      \* Seek calls of the consumer in one run
MaxErrors == 1      \* read errors (null-buffer read_piece alerts) of the engine
MaxAlerts == 2      \* alerts waiting in the session's alert queue
NumHashes == 2      \* torrents (info-hashes) the process may meet
MaxFiles  == 3      \* files of a torrent (metadata.num_files())
MaxFileSize == 2    \* size of a file of the torrent listed by ReadDir
MaxInt    == 2      \* integers held by a bencoded entry

Pieces == 0 .. (NumPieces - 1)

(***************************************************************************)
(* lt::torrent_status::state_t, as listed by HandleStateChanged.           *)
(***************************************************************************)
TorrentStates ==
    { "queued_for_checking", "downloading_metadata", "finished", "allocating",
      "checking_resume_data", "checking_files", "seeding", "downloading" }

\* The predicate ReadNextPiece waits for on status_.cond.
Readable(s) == s = "downloading" \/ s = "finished" \/ s = "seeding"

(***************************************************************************)
(* The torrent and the selected file (file_at_): the file starts at byte   *)
(* `offset` of the torrent and is `size` bytes long; the torrent is        *)
(* `total` bytes long, so that its last piece may be short.                *)
(***************************************************************************)
Layouts ==
    { l \in [ offset : 0 .. (NumPieces * PieceSize - 1),
              size   : 1 .. (NumPieces * PieceSize),
              total  : ((NumPieces - 1) * PieceSize + 1) .. (NumPieces * PieceSize) ] :
        l.offset + l.size <= l.total }

\* metadata.map_file(file_at_, off, 1): the piece and the offset in it.
MapFile(l, off) ==
    [ piece |-> (l.offset + off) \div PieceSize,
      start |-> (l.offset + off) % PieceSize ]

\* The size of piece i of the torrent (read_piece_alert::size).
PieceLen(l, i) ==
    IF (i + 1) * PieceSize <= l.total THEN PieceSize ELSE l.total - i * PieceSize

\* The bytes of piece i: a byte is modelled by its position in the torrent.
PieceBytes(l, i) == [ k \in 1 .. PieceLen(l, i) |-> i * PieceSize + k - 1 ]

(***************************************************************************)
(* struct Piece.  data is the unique_block_ptr: <<>> is nullptr, <<b>> a   *)
(* block whose buffer holds the bytes b.                                   *)
(***************************************************************************)
\* NewPiece with a slip: the entry is born requested.
NewPiece_Requested(i, off, len) ==
    [ id |-> i, offset |-> off, length |-> len, requested |-> TRUE, data |-> <<>> ]

NewPiece(i, off, len) ==
    [ id |-> i, offset |-> off, length |-> len, requested |-> FALSE, data |-> <<>> ]

\* PieceEntry with a slip: the offset inside the first piece is not kept.
PieceEntry_NoStart(i, beg_req, end_req) ==
    LET off  == IF i = beg_req.piece THEN beg_req.start ELSE 0
        len0 == IF i = beg_req.piece THEN PieceSize - off ELSE PieceSize
        len  == IF i = end_req.piece THEN end_req.start + 1 - off ELSE len0
    IN  NewPiece(i, 0, len)

\* PieceEntry with a slip: every entry gets the id of the first piece.
PieceEntry_FirstId(i, beg_req, end_req) ==
    LET off  == IF i = beg_req.piece THEN beg_req.start ELSE 0
        len0 == IF i = beg_req.piece THEN PieceSize - off ELSE PieceSize
        len  == IF i = end_req.piece THEN end_req.start + 1 - off ELSE len0
    IN  NewPiece(beg_req.piece, off, len)

\* The entry SelectPieces enqueues for an in-range piece i.
PieceEntry(i, beg_req, end_req) ==
    LET off  == IF i = beg_req.piece THEN beg_req.start ELSE 0
        len0 == IF i = beg_req.piece THEN PieceSize - off ELSE PieceSize
        len  == IF i = end_req.piece THEN end_req.start + 1 - off ELSE len0
    IN  NewPiece(i, off, len)

\* The loop of SelectPieces over the pieces of the torrent, from piece i on.
RECURSIVE SelectLoop(_, _, _, _, _)
SelectLoop(i, beg_req, end_req, q, pr) ==
    IF i >= NumPieces
    THEN [ pieces |-> q, prio |-> pr ]
    ELSE IF i < beg_req.piece \/ i > end_req.piece
         THEN SelectLoop(i + 1, beg_req, end_req, q, [pr EXCEPT ![i] = 0])
         ELSE SelectLoop(i + 1, beg_req, end_req,
                         Append(q, PieceEntry(i, beg_req, end_req)),
                         [pr EXCEPT ![i] = 7])

\* SelectPieces with a slip: the request starts at the file's first byte.
SelectPieces_FromStart(l, offset, pr) ==
    IF offset = l.size
    THEN [ pieces |-> <<>>, prio |-> pr ]
    ELSE SelectLoop(0, MapFile(l, 0), MapFile(l, l.size - 1), <<>>, pr)

\* SelectPieces with a slip: no return at the end of the file.
SelectPieces_NoEndTest(l, offset, pr) ==
    SelectLoop(0, MapFile(l, offset), MapFile(l, l.size - 1), <<>>, pr)

\* SelectPieces(offset): the new queue and the new piece priorities.
SelectPieces(l, offset, pr) ==
    IF offset = l.size
    THEN [ pieces |-> <<>>, prio |-> pr ]
    ELSE SelectLoop(0, MapFile(l, offset), MapFile(l, l.size - 1), <<>>, pr)

(***************************************************************************)
(* Alerts of the engine.  A read_piece alert carries buffer = <<>> (null:  *)
(* a read error) or <<b>> with the bytes b of the piece.                   *)
(***************************************************************************)
StateChangedAlert(s) == [ type |-> "state_changed", state |-> s ]

ReadPieceAlert(p, buf) == [ type |-> "read_piece", piece |-> p, buffer |-> buf ]

\* resume_data is the shared pointer: <<>> for nullptr, else <<entry>>.
SaveResumeDataAlert(data) == [ type |-> "save_resume_data", resume_data |-> data ]

SaveResumeDataFailedAlert == [ type |-> "save_resume_data_failed" ]

MetadataReceivedAlert == [ type |-> "metadata_received" ]

\* std::find_if over the queue: the index of the first entry with this id, or 0.
FindPiece(q, id) ==
    LET hits == { k \in 1 .. Len(q) : q[k].id = id }
    IN  IF hits = {} THEN 0 ELSE CHOOSE k \in hits : \A j \in hits : k <= j

\* FillData with a slip: the copy starts at the buffer's first byte.
FillData_FromStart(p, bytes) == << SubSeq(bytes, 1, p.length) >>

\* The block HandleReadPiece allocates and fills for entry p from the buffer.
FillData(p, bytes) == << SubSeq(bytes, p.offset + 1, p.offset + p.length) >>

\* HandleReadPiece with a slip: an entry that has data is filled again.
HandleReadPiece_Overwrite(q, a) ==
    IF a.buffer = <<>>
    THEN [ pieces |-> q, notify |-> FALSE, read_piece |-> {a.piece} ]
    ELSE LET k == FindPiece(q, a.piece)
         IN  IF k = 0
             THEN [ pieces |-> q, notify |-> FALSE, read_piece |-> {} ]
             ELSE [ pieces |-> [q EXCEPT ![k].data = FillData(q[k], a.buffer[1])],
                    notify |-> (q[k].id = q[1].id),
                    read_piece |-> {} ]

\* HandleReadPiece with a slip: a read error is not retried.
HandleReadPiece_NoRetry(q, a) ==
    IF a.buffer = <<>>
    THEN [ pieces |-> q, notify |-> FALSE, read_piece |-> {} ]
    ELSE LET k == FindPiece(q, a.piece)
         IN  IF k = 0 \/ q[k].data # <<>>
             THEN [ pieces |-> q, notify |-> FALSE, read_piece |-> {} ]
             ELSE [ pieces |-> [q EXCEPT ![k].data = FillData(q[k], a.buffer[1])],
                    notify |-> (q[k].id = q[1].id),
                    read_piece |-> {} ]

\* HandleReadPiece with a slip: a buffer for a piece that is not queued is
\* asked for again.
HandleReadPiece_RequestUnknown(q, a) ==
    IF a.buffer = <<>>
    THEN [ pieces |-> q, notify |-> FALSE, read_piece |-> {a.piece} ]
    ELSE LET k == FindPiece(q, a.piece)
         IN  IF k = 0
             THEN [ pieces |-> q, notify |-> FALSE, read_piece |-> {a.piece} ]
             ELSE IF q[k].data # <<>>
                  THEN [ pieces |-> q, notify |-> FALSE, read_piece |-> {} ]
                  ELSE [ pieces |-> [q EXCEPT ![k].data = FillData(q[k], a.buffer[1])],
                         notify |-> (q[k].id = q[1].id),
                         read_piece |-> {} ]

(***************************************************************************)
(* HandleReadPiece(alert): the new queue, whether queue_.cond is notified, *)
(* and the pieces handle_.read_piece is called for.                        *)
(***************************************************************************)
\* HandleReadPiece with a slip: the piece is read again once it is filled,
\* inside the scope of the lock.
HandleReadPiece_RereadFilled(q, a) ==
    IF a.buffer = <<>>
    THEN [ pieces |-> q, notify |-> FALSE, read_piece |-> {a.piece} ]
    ELSE LET k == FindPiece(q, a.piece)
         IN  IF k = 0 \/ q[k].data # <<>>
             THEN [ pieces |-> q, notify |-> FALSE, read_piece |-> {} ]
             ELSE [ pieces |-> [q EXCEPT ![k].data = FillData(q[k], a.buffer[1])],
                    notify |-> (q[k].id = q[1].id),
                    read_piece |-> {a.piece} ]

HandleReadPiece(q, a) ==
    IF a.buffer = <<>>
    THEN [ pieces |-> q, notify |-> FALSE, read_piece |-> {a.piece} ]
    ELSE LET k == FindPiece(q, a.piece)
         IN  IF k = 0 \/ q[k].data # <<>>
             THEN [ pieces |-> q, notify |-> FALSE, read_piece |-> {} ]
             ELSE [ pieces |-> [q EXCEPT ![k].data = FillData(q[k], a.buffer[1])],
                    notify |-> (q[k].id = q[1].id),
                    read_piece |-> {} ]

(***************************************************************************)
(* The engine's torrent state machine, as the controller relies on it:     *)
(* queued_for_checking, then checking_resume_data, checking_files or       *)
(* allocating, then downloading, finished, seeding.                        *)
(***************************************************************************)
StateRank(s) ==
    CASE s = "queued_for_checking" -> 0
      [] s \in { "checking_resume_data", "checking_files", "allocating" } -> 1
      [] s = "downloading" -> 2
      [] s = "finished" -> 3
      [] s = "seeding" -> 4
      [] OTHER -> 0

EngineSucc(s) ==
    { t \in TorrentStates \ {"downloading_metadata"} : StateRank(t) = StateRank(s) + 1 }

(***************************************************************************)
(* Info-hashes.  A sha1_hash is modelled by a small number; ZeroHash is    *)
(* the all-zero hash a default-constructed lt::add_torrent_params holds.   *)
(***************************************************************************)
ZeroHash == 0

Hashes == 1 .. NumHashes

HexDigit(d) ==
    << "0", "1", "2", "3", "4", "5", "6", "7", "8", "9", "a", "b", "c", "d", "e", "f" >>[d + 1]

\* lt::to_hex(info_hash.to_string()), for a hash of one byte.
ToHex(h) == HexDigit(h \div 16) \o HexDigit(h % 16)

\* std::to_string of a non-negative int.
RECURSIVE to_string(_)
to_string(n) == IF n < 10 THEN HexDigit(n) ELSE to_string(n \div 10) \o HexDigit(n % 10)

(***************************************************************************)
(* lt::entry and lt::bencode.                                              *)
(***************************************************************************)
IntEntry(n) == [ type |-> "int", v |-> n ]

StrEntry(str) == [ type |-> "str", v |-> str ]

ListEntry(es) == [ type |-> "list", v |-> es ]

\* A dictionary, as the sequence of its <<key, entry>> pairs in key order.
DictEntry(kvs) == [ type |-> "dict", v |-> kvs ]

RECURSIVE Bencode(_)
RECURSIVE BencodeList(_)
RECURSIVE BencodeDict(_)
Bencode(e) ==
    CASE e.type = "int"  -> "i" \o to_string(e.v) \o "e"
      [] e.type = "str"  -> to_string(Len(e.v)) \o ":" \o e.v
      [] e.type = "list" -> "l" \o BencodeList(e.v) \o "e"
      [] e.type = "dict" -> "d" \o BencodeDict(e.v) \o "e"
      [] OTHER           -> ""

BencodeList(es) == IF es = <<>> THEN "" ELSE Bencode(es[1]) \o BencodeList(Tail(es))

BencodeDict(kvs) ==
    IF kvs = <<>>
    THEN ""
    ELSE Bencode(StrEntry(kvs[1][1])) \o Bencode(kvs[1][2]) \o BencodeDict(Tail(kvs))

\* lt::create_torrent{metadata}.generate() for the torrent with info-hash h.
TorrentEntry(h) == DictEntry(<< << "info", StrEntry(ToHex(h)) >> >>)

\* The resume data the engine hands over for the torrent with info-hash h.
ResumeEntry(h) == DictEntry(<< << "info-hash", StrEntry(ToHex(h)) >> >>)

\* The entry session_.save_state(state, save_dht_state) fills.
DhtState == DictEntry(<< << "dht", ListEntry(<<>>) >> >>)

\* lt::torrent_info{path, ec} on a file with these bytes: <<h>> is the
\* metadata of torrent h, <<>> a parse error.
ParseTorrentFile(bytes) ==
    LET hs == { h \in Hashes : Bencode(TorrentEntry(h)) = bytes }
    IN  IF hs = {} THEN <<>> ELSE << CHOOSE h \in hs : TRUE >>

(***************************************************************************)
(* The cache directory.  fs maps the names of the files in it to their     *)
(* bytes; dir is cache_dir_, <<>> for nullptr.  An empty path is "".       *)
(***************************************************************************)
CachePath(dir, name) == dir[1] \o "/" \o name

\* WriteFile with a slip: the file is opened without trunc.
WriteFile_NoTrunc(fs, name, bytes) ==
    [ n \in DOMAIN fs \cup { name } |->
        IF n # name
        THEN fs[n]
        ELSE IF name \in DOMAIN fs /\ Len(fs[name]) > Len(bytes)
             THEN bytes \o SubSeq(fs[name], Len(bytes) + 1, Len(fs[name]))
             ELSE bytes ]

\* std::ofstream{path, binary | trunc} and the write of the bytes.
WriteFile(fs, name, bytes) ==
    [ n \in DOMAIN fs \cup { name } |-> IF n = name THEN bytes ELSE fs[n] ]

\* CacheSave with a slip: the path is returned though the file did not open.
CacheSave_PathAlways(dir, fs, name, entry, io_ok) ==
    IF dir = <<>>
    THEN [ path |-> "", fs |-> fs ]
    ELSE [ path |-> CachePath(dir, name),
           fs |-> IF io_ok THEN WriteFile(fs, name, Bencode(entry)) ELSE fs ]

\* CacheSave(name, entry): the path returned and the files afterwards;
\* io_ok tells whether the file could be opened for writing.
CacheSave(dir, fs, name, entry, io_ok) ==
    IF dir = <<>> \/ ~io_ok
    THEN [ path |-> "", fs |-> fs ]
    ELSE [ path |-> CachePath(dir, name), fs |-> WriteFile(fs, name, Bencode(entry)) ]

\* The writers of the files after a CacheSave by thread t that returned
\* path: the file was written unless the path is empty.
Written(w, path, name, t) ==
    IF path = ""
    THEN w
    ELSE [ n \in DOMAIN w \cup { name } |->
             IF n # name THEN w[n]
             ELSE IF n \in DOMAIN w THEN Append(w[n], t) ELSE << t >> ]

\* CacheLookup with a slip: the file is never found.
CacheLookup_Miss(dir, fs, name) == ""

\* CacheLookup(name): the path of the file, or the empty path.
CacheLookup(dir, fs, name) ==
    IF dir = <<>> \/ name \notin DOMAIN fs THEN "" ELSE CachePath(dir, name)

\* CacheLoad(name): the bytes of the file, or none.
CacheLoad(dir, fs, name) ==
    IF dir = <<>> \/ name \notin DOMAIN fs THEN "" ELSE fs[name]

\* CacheDel with a slip: nothing is removed.
CacheDel_Keep(dir, fs, name) == fs

\* CacheDel(name): the files afterwards.
CacheDel(dir, fs, name) ==
    IF dir = <<>> THEN fs ELSE [ n \in DOMAIN fs \ { name } |-> fs[n] ]

(***************************************************************************)
(* The location handed to Open (psz_location): a magnet link or the path   *)
(* of a torrent file, of the torrent with info-hash `hash`; `valid` tells  *)
(* whether it parses.                                                      *)
(***************************************************************************)
Locations == [ kind : { "magnet", "file" }, hash : Hashes, valid : BOOLEAN ]

LocationText(loc) ==
    (IF loc.kind = "magnet" THEN "magnet:?xt=urn:btih:" ELSE "/torrents/")
        \o ToHex(loc.hash) \o (IF loc.valid THEN "" ELSE "~")

\* ParseURI(uri, params): the return value and the add-parameters.  The
\* torrent_info pointer ti is <<>> for nullptr and <<h>> for torrent h.
ParseURI(loc) ==
    IF loc.kind = "magnet"
    THEN IF loc.valid
         THEN [ ret |-> "VLC_SUCCESS", params |-> [ info_hash |-> loc.hash, ti |-> <<>> ] ]
         ELSE [ ret |-> "VLC_EGENERIC", params |-> [ info_hash |-> ZeroHash, ti |-> <<>> ] ]
    ELSE IF loc.valid
         THEN [ ret |-> "VLC_SUCCESS", params |-> [ info_hash |-> ZeroHash, ti |-> << loc.hash >> ] ]
         ELSE [ ret |-> "VLC_EGENERIC", params |-> [ info_hash |-> ZeroHash, ti |-> << ZeroHash >> ] ]

\* CachedUri with a slip: the path is left out.
CachedUri_Bare(path) == "torrent://"

\* set_uri("torrent://" + path)
CachedUri(path) == "torrent://" \o path

(***************************************************************************)
(* ReadDir: one input item per file, kept in a std::map keyed by the       *)
(* file's size and appended to the node from the largest key down.         *)
(***************************************************************************)
FileLists == UNION { [ 1 .. n -> 1 .. MaxFileSize ] : n \in 1 .. MaxFiles }

\* input_item_New and input_item_AddOption for file i.
NewItem(u, i) == [ uri |-> u, option |-> "torrent-file-index=" \o to_string(i) ]

\* items[size] = p_item
ItemsPut(items, size, item) ==
    [ k \in DOMAIN items \cup { size } |-> IF k = size THEN item ELSE items[k] ]

\* The for loop over the files, from file i (counted from 1) on.
RECURSIVE ReadDirLoop(_, _, _, _)
ReadDirLoop(i, sizes, u, items) ==
    IF i > Len(sizes)
    THEN items
    ELSE ReadDirLoop(i + 1, sizes, u, ItemsPut(items, sizes[i], NewItem(u, i - 1)))

\* std::for_each(items.rbegin(), items.rend(), ...): the items appended.
RECURSIVE AppendDescending(_)
AppendDescending(items) ==
    IF DOMAIN items = {}
    THEN <<>>
    ELSE LET top == CHOOSE k \in DOMAIN items : \A j \in DOMAIN items : j <= k
         IN  << items[top] >> \o AppendDescending([ k \in DOMAIN items \ { top } |-> items[k] ])

ReadDir(sizes, u) == AppendDescending(ReadDirLoop(1, sizes, u, <<>>))

(***************************************************************************)
(* The calls of the cache operations taken by themselves: the names and    *)
(* the entries they are called with, and the record kept of the last call: *)
(* the operation, its name, whether the file could be opened, what it      *)
(* returned, the entry last saved under each name and not deleted since,   *)
(* and the names whose last save replaced a longer file.                   *)
(***************************************************************************)
CacheNames == { "dht_state.dat", ToHex(1) \o ".torrent" }

Entries ==
    { IntEntry(n) : n \in 0 .. MaxInt }
        \cup { StrEntry(str) : str \in { "", "a", "announce" } }
        \cup { ListEntry(<<>>), ListEntry(<< IntEntry(MaxInt), StrEntry("a") >>) }
        \cup { TorrentEntry(h) : h \in Hashes }
        \cup { DhtState }

NoCall ==
    [ op |-> "none", name |-> "", io_ok |-> TRUE, result |-> "",
      saved |-> [ n \in CacheNames |-> <<>> ], shrunk |-> {} ]

VARIABLES
    layout,       \* the torrent's metadata and the selected file (file_at_)
    keep_files,   \* "keep-files", as the destructor reads it (true by default)
    pcCons,       \* where the consumer thread is
    pcDrv,        \* where the driver thread (Run) is
    queue,        \* queue_.pieces
    prio,         \* the engine's piece priorities (handle_.piece_priority)
    status,       \* status_.state
    stopped,      \* stopped_
    engTorrent,   \* the torrent in the session: "none", "added", "removed", "deleted"
    engState,     \* the engine's state of the torrent (handle_.status().state)
    engPaused,    \* session_.pause() was called
    pending,      \* read requests the engine has not answered yet, per piece
    alerts,       \* the session's alert queue
    batch,        \* Run's local deque `alerts`, being dispatched
    resumeReq,    \* handle_.save_resume_data: "none", "requested", "answered"
    resumeSaved,  \* resume_data_saved_ has its value
    dht,          \* the DHT-state save task: "none", "running", "deferred", "done", "nolaunch"
    cache,        \* the files of the cache directory
    selOff,       \* the offset of the most recent SelectPieces
    nSeeks,       \* Seek calls so far
    delivered,    \* the Pieces ReadNextPiece returned with data since that SelectPieces
    b_eof,        \* info.b_eof: the eof flag of the last ReadNextPiece (set by Block)
    i_pos,        \* info.i_pos: the position of the access in the file
    nDeadline,    \* set_piece_deadline calls per piece since that SelectPieces
    nErrors,      \* read errors the engine reported so far
    location,     \* psz_location, the location Open was called for
    file_index,   \* "torrent-file-index" (-1: browse the torrent)
    files,        \* the sizes of the files of the torrent (metadata.file_at(i).size)
    cache_dir,    \* cache_dir_: <<>> for nullptr, else <<directory>>
    hash_static,  \* the static local `hash` of torrent_hash(): <<>> before its first call
    params,       \* params_ (the add-parameters): info_hash and ti
    uri,          \* uri_
    ret,          \* what Open returned: "none" while it has not
    p_sys,        \* p_access->p_sys: "null", "alive" or "deleted"
    playlist,     \* the items ReadDir appended to the node
    names,        \* the .torrent and .resume names the instance used in the cache
    cret,         \* the record of the last cache call made for itself
    status_mutex, \* status_.mutex: "free" or the thread that holds it
    queue_mutex,  \* queue_.mutex: "free" or the thread that holds it
    calls,        \* the calls made into the engine, with the mutexes held then
    access,       \* the reads and writes of queue_.pieces and status_.state made
    cwrites       \* per name of the cache, the threads whose CacheSave wrote the file

vars ==
    << layout, keep_files, pcCons, pcDrv, queue, prio, status, stopped,
       engTorrent, engState, engPaused, pending, alerts, batch, resumeReq,
       resumeSaved, dht, cache, selOff, nSeeks, delivered, b_eof, i_pos, nDeadline,
       nErrors, location, file_index, files, cache_dir, hash_static, params,
       uri, ret, p_sys, playlist, names, cret, status_mutex, queue_mutex, calls,
       access, cwrites >>

lockVars == << status_mutex, queue_mutex, calls, access >>

openOnly ==
    << location, file_index, files, cache_dir, hash_static, params, uri, ret,
       p_sys, playlist, names, cret >>

openVars == << openOnly, lockVars, cwrites >>

consumerVars == << pcCons, queue, prio, selOff, nSeeks, delivered, b_eof, i_pos, nDeadline >>

shutdownVars == << engPaused, resumeReq, resumeSaved, dht, cache, stopped >>

\* What torrent_hash() returns: its static local, which the first call in
\* the process initialises from that instance's params_.info_hash.
torrent_hash == IF hash_static = <<>> THEN ToHex(params.info_hash) ELSE hash_static[1]

TorrentName(hex) == hex \o ".torrent"

ResumeName(hex) == hex \o ".resume"

TorrentFile == TorrentName(torrent_hash)

\* ResumeFile with a slip: the resume data go to the torrent file's name.
ResumeFile_TorrentName == TorrentName(torrent_hash)

ResumeFile == ResumeName(torrent_hash)

DhtFile == "dht_state.dat"

(***************************************************************************)
(* The members of a TorrentAccess after construction, the session and the  *)
(* engine before anything was added, and the caller's view.                *)
(***************************************************************************)
InitSession ==
    /\ keep_files = TRUE
    /\ pcDrv = "none"
    /\ queue = <<>>
    /\ prio = [ i \in Pieces |-> 1 ]
    /\ status = "queued_for_checking"
    /\ stopped = FALSE
    /\ engTorrent = "none"
    /\ engState = "queued_for_checking"
    /\ engPaused = FALSE
    /\ pending = [ i \in Pieces |-> 0 ]
    /\ alerts = <<>>
    /\ batch = <<>>
    /\ resumeReq = "none"
    /\ resumeSaved = FALSE
    /\ dht = "none"
    /\ selOff = 0
    /\ nSeeks = 0
    /\ delivered = <<>>
    /\ b_eof = FALSE
    /\ i_pos = 0
    /\ nDeadline = [ i \in Pieces |-> 0 ]
    /\ nErrors = 0
    /\ ret = "none"
    /\ playlist = <<>>
    /\ names = {}
    /\ cret = NoCall
    /\ status_mutex = "free"
    /\ queue_mutex = "free"
    /\ calls = {}
    /\ access = {}
    /\ cwrites = <<>>

(***************************************************************************)
(* Streaming starts in the state open() is in when it calls StartDownload  *)
(* for a torrent file taken from the cache: the instance is constructed,   *)
(* the parameters are set, the cache holds the torrent file an earlier     *)
(* metadata fetch of this process left, which initialised torrent_hash().  *)
(***************************************************************************)
Init ==
    /\ InitSession
    /\ layout \in Layouts
    /\ pcCons = "constructed"
    /\ location = [ kind |-> "file", hash |-> 1, valid |-> TRUE ]
    /\ file_index = 0
    /\ files = << layout.size >>
    /\ cache_dir = << "/cache" >>
    /\ hash_static = << ToHex(1) >>
    /\ params = ParseURI(location).params
    /\ uri = "torrent://" \o LocationText(location)
    /\ p_sys = "alive"
    /\ cache = WriteFile(<<>>, TorrentFile, Bencode(TorrentEntry(1)))

(***************************************************************************)
(* StartDownload, in two steps: session_.add_torrent, and then             *)
(* SelectPieces(0), the read of handle_.status().state and the start of    *)
(* the driver thread.  The engine runs in between.                         *)
(***************************************************************************)
StartDownload_Add ==
    /\ pcCons = "constructed"
    /\ hash_static' = << torrent_hash >>
    /\ names' = names \cup { ResumeFile }
    /\ pcCons' = "starting"
    /\ engTorrent' = "added"
    /\ UNCHANGED << location, file_index, files, cache_dir, params, uri, ret, p_sys,
                    playlist, cret >>
    /\ UNCHANGED << layout, keep_files, pcDrv, queue, prio, status, stopped,
                    engState, engPaused, pending, alerts, batch, resumeReq,
                    resumeSaved, dht, cache, selOff, nSeeks, delivered, b_eof, i_pos,
                    nDeadline, nErrors >>
    /\ UNCHANGED << lockVars, cwrites >>

StartDownload_Run ==
    /\ pcCons = "starting"
    /\ LET r == SelectPieces(layout, 0, prio)
       IN  /\ queue' = r.pieces
           /\ prio' = r.prio
    /\ selOff' = 0
    /\ status' = engState
    /\ pcDrv' = "poll"
    /\ pcCons' = "idle"
    /\ ret' = "VLC_SUCCESS"
    /\ UNCHANGED << location, file_index, files, cache_dir, hash_static, params, uri,
                    p_sys, playlist, names, cret >>
    /\ UNCHANGED << layout, keep_files, stopped, engTorrent, engState,
                    engPaused, pending, alerts, batch, resumeReq, resumeSaved, dht,
                    cache, nSeeks, delivered, b_eof, i_pos, nDeadline, nErrors >>
    /\ UNCHANGED << lockVars, cwrites >>

(***************************************************************************)
(* Seek(i_pos): SelectPieces(i_pos), under the queue mutex.                *)
(***************************************************************************)
Seek(o) ==
    /\ pcCons = "idle"
    /\ nSeeks < MaxSeeks
    /\ LET r == SelectPieces(layout, o, prio)
       IN  /\ queue' = r.pieces
           /\ prio' = r.prio
    /\ selOff' = o
    /\ i_pos' = o
    /\ nSeeks' = nSeeks + 1
    /\ delivered' = <<>>
    /\ nDeadline' = [ i \in Pieces |-> 0 ]
    /\ UNCHANGED << b_eof, layout, keep_files, pcCons, pcDrv, status, stopped,
                    engTorrent, engState, engPaused, pending, alerts, batch,
                    resumeReq, resumeSaved, dht, cache, nErrors >>
    /\ UNCHANGED openVars

(***************************************************************************)
(* ReadNextPiece, in its three critical sections.                          *)
(***************************************************************************)
\* StateWait with a slip: the result of wait_for is not looked at.
StateWait_Ignored(s) == TRUE

\* StateWait with a slip: any state past queued_for_checking passes.
StateWait_PastQueued(s) == s # "queued_for_checking"

\* The wait on status_.cond: the predicate holds, or the wait times out.
StateWait(s) == Readable(s)

ReadNextPiece_Status ==
    /\ UNCHANGED i_pos
    /\ pcCons = "idle"
    /\ IF StateWait(status)
       THEN /\ pcCons' = "rnp_queue"
            /\ UNCHANGED b_eof
       ELSE /\ pcCons' = "idle"
            /\ b_eof' = FALSE
    /\ UNCHANGED << layout, keep_files, pcDrv, queue, prio, status, stopped,
                    engTorrent, engState, engPaused, pending, alerts, batch,
                    resumeReq, resumeSaved, dht, cache, selOff, nSeeks, delivered,
                    nDeadline, nErrors >>
    /\ UNCHANGED openVars

\* MarkRequested with a slip: requested is not set.
MarkRequested_Forget(p) == p

\* MarkRequested with a slip: the offset of the entry is reset.
MarkRequested_Shift(p) == [ p EXCEPT !.requested = TRUE, !.offset = 0 ]

\* MarkRequested with a slip: the request drops the data the head holds.
MarkRequested_DropData(p) == [ p EXCEPT !.requested = TRUE, !.data = <<>> ]

\* The head of the queue after the request: requested is set.
MarkRequested(p) == [ p EXCEPT !.requested = TRUE ]

ReadNextPiece_Queue ==
    /\ UNCHANGED i_pos
    /\ pcCons = "rnp_queue"
    /\ IF queue = <<>>
       THEN /\ b_eof' = TRUE
            /\ pcCons' = "idle"
            /\ UNCHANGED << queue, pending, nDeadline >>
       ELSE /\ IF ~queue[1].requested
               THEN /\ pending' = [pending EXCEPT ![queue[1].id] = @ + 1]
                    /\ nDeadline' = [nDeadline EXCEPT ![queue[1].id] = @ + 1]
                    /\ queue' = [queue EXCEPT ![1] = MarkRequested(@)]
               ELSE UNCHANGED << queue, pending, nDeadline >>
            /\ pcCons' = "rnp_wait"
            /\ UNCHANGED b_eof
    /\ UNCHANGED << layout, keep_files, pcDrv, prio, status, stopped, engTorrent,
                    engState, engPaused, alerts, batch, resumeReq, resumeSaved, dht,
                    cache, selOff, nSeeks, delivered, nErrors >>
    /\ UNCHANGED openVars

\* PopFront with a slip: the head is moved from but stays in the queue.
PopFront_Keep(q) == q

\* queue_.pieces.pop_front()
PopFront(q) == Tail(q)

\* Block: p_access->info.i_pos += p.length
Advance(pos, p) == pos + p.length

\* The wait on queue_.cond: the head has data, or the wait times out.
\* Block then advances info.i_pos by the length of the piece it returns.
ReadNextPiece_Wait ==
    /\ pcCons = "rnp_wait"
    /\ IF queue[1].data # <<>>
       THEN /\ delivered' = Append(delivered, queue[1])
            /\ i_pos' = Advance(i_pos, queue[1])
            /\ queue' = PopFront(queue)
       ELSE UNCHANGED << delivered, i_pos, queue >>
    /\ b_eof' = FALSE
    /\ pcCons' = "idle"
    /\ UNCHANGED << layout, keep_files, pcDrv, prio, status, stopped,
                    engTorrent, engState, engPaused, pending, alerts, batch,
                    resumeReq, resumeSaved, dht, cache, selOff, nSeeks, nDeadline,
                    nErrors >>
    /\ UNCHANGED openVars

(***************************************************************************)
(* The engine.  It changes the torrent's state, answers read requests      *)
(* (set_piece_deadline with alert_when_available, read_piece) with a       *)
(* read_piece alert, and answers save_resume_data with a                   *)
(* save_resume_data alert or with a save_resume_data_failed alert.         *)
(***************************************************************************)
Engine_StateChanged ==
    /\ engTorrent = "added"
    /\ ~engPaused
    /\ Len(alerts) < MaxAlerts
    /\ \E t \in EngineSucc(engState) :
          /\ engState' = t
          /\ alerts' = Append(alerts, StateChangedAlert(t))
    /\ UNCHANGED << layout, keep_files, pcDrv, status, engTorrent, pending, batch,
                    nErrors >>
    /\ UNCHANGED consumerVars
    /\ UNCHANGED shutdownVars
    /\ UNCHANGED openVars

Engine_ReadPiece(p) ==
    /\ engTorrent = "added"
    /\ pending[p] > 0
    /\ Len(alerts) < MaxAlerts
    /\ pending' = [pending EXCEPT ![p] = @ - 1]
    /\ alerts' = Append(alerts, ReadPieceAlert(p, << PieceBytes(layout, p) >>))
    /\ UNCHANGED << layout, keep_files, pcDrv, status, engTorrent, engState, batch,
                    nErrors >>
    /\ UNCHANGED consumerVars
    /\ UNCHANGED shutdownVars
    /\ UNCHANGED openVars

Engine_ReadError(p) ==
    /\ engTorrent = "added"
    /\ pending[p] > 0
    /\ nErrors < MaxErrors
    /\ Len(alerts) < MaxAlerts
    /\ pending' = [pending EXCEPT ![p] = @ - 1]
    /\ alerts' = Append(alerts, ReadPieceAlert(p, <<>>))
    /\ nErrors' = nErrors + 1
    /\ UNCHANGED << layout, keep_files, pcDrv, status, engTorrent, engState, batch >>
    /\ UNCHANGED consumerVars
    /\ UNCHANGED shutdownVars
    /\ UNCHANGED openVars

Engine_SaveResumeData ==
    /\ engTorrent = "added"
    /\ resumeReq = "requested"
    /\ Len(alerts) < MaxAlerts
    /\ resumeReq' = "answered"
    /\ alerts' = Append(alerts, SaveResumeDataAlert(<< ResumeEntry(params.ti[1]) >>))
    /\ UNCHANGED << layout, keep_files, pcDrv, status, engTorrent, engState, pending,
                    batch, nErrors, engPaused, resumeSaved, dht, cache, stopped >>
    /\ UNCHANGED consumerVars
    /\ UNCHANGED openVars

\* A save_resume_data alert whose resume_data is null.
Engine_SaveResumeDataNull ==
    /\ engTorrent = "added"
    /\ resumeReq = "requested"
    /\ Len(alerts) < MaxAlerts
    /\ resumeReq' = "answered"
    /\ alerts' = Append(alerts, SaveResumeDataAlert(<<>>))
    /\ UNCHANGED << layout, keep_files, pcDrv, status, engTorrent, engState, pending,
                    batch, nErrors, engPaused, resumeSaved, dht, cache, stopped >>
    /\ UNCHANGED consumerVars
    /\ UNCHANGED openVars

Engine_SaveResumeDataFailed ==
    /\ engTorrent = "added"
    /\ resumeReq = "requested"
    /\ Len(alerts) < MaxAlerts
    /\ resumeReq' = "answered"
    /\ alerts' = Append(alerts, SaveResumeDataFailedAlert)
    /\ UNCHANGED << layout, keep_files, pcDrv, status, engTorrent, engState, pending,
                    batch, nErrors, engPaused, resumeSaved, dht, cache, stopped >>
    /\ UNCHANGED consumerVars
    /\ UNCHANGED openVars

(***************************************************************************)
(* The driver: TorrentAccess::Run.                                         *)
(***************************************************************************)
\* The loop's head: the test of stopped_, wait_for_alert and pop_alerts.
Run_Poll ==
    /\ pcDrv = "poll"
    /\ \/ /\ stopped
          /\ pcDrv' = "exited"
          /\ UNCHANGED << alerts, batch >>
       \/ /\ ~stopped
          /\ alerts # <<>>
          /\ batch' = alerts
          /\ alerts' = <<>>
          /\ pcDrv' = "dispatch"
    /\ UNCHANGED << layout, keep_files, status, engTorrent, engState, pending, nErrors >>
    /\ UNCHANGED consumerVars
    /\ UNCHANGED shutdownVars
    /\ UNCHANGED openVars

\* HandleStateChanged: the state Status holds after the alert.
HandleStateChanged(s, a) == IF a.state \in TorrentStates THEN a.state ELSE s

\* HandleSaveResumeData with a slip: the promise is fulfilled only when the
\* resume data were written.
HandleSaveResumeData_SignalIfSaved(c, a, io_ok) ==
    LET r == IF a.resume_data # <<>>
             THEN CacheSave(cache_dir, c, ResumeFile, a.resume_data[1], io_ok)
             ELSE [ path |-> "", fs |-> c ]
    IN  [ fs |-> r.fs, path |-> r.path, set_value |-> r.path # "" ]

\* HandleSaveResumeData: the cache after the alert (CacheSave if the alert
\* carries resume data; io_ok tells whether the file could be opened), and
\* resume_data_saved_.set_value().
HandleSaveResumeData(c, a, io_ok) ==
    LET r == IF a.resume_data # <<>>
             THEN CacheSave(cache_dir, c, ResumeFile, a.resume_data[1], io_ok)
             ELSE [ path |-> "", fs |-> c ]
    IN  [ fs |-> r.fs, path |-> r.path, set_value |-> TRUE ]

\* ReadPieceCalls with a slip: the calls are not made.
ReadPieceCalls_None(pend, S) == pend

\* The engine's pending reads after handle_.read_piece for each piece of S.
ReadPieceCalls(pend, S) == [ i \in Pieces |-> IF i \in S THEN pend[i] + 1 ELSE pend[i] ]

\* EndsRun with a slip: a state_changed alert makes Run return as well.
EndsRun_StateChanged(a) == a.type \in { "metadata_received", "state_changed" }

\* The one case of the switch that returns from Run: metadata_received.
EndsRun(a) == a.type = "metadata_received"

\* The body of the loop over the popped alerts: the switch on the head's type.
\* A metadata_received alert makes Run return.
Dispatch(io_ok) ==
    /\ pcDrv = "dispatch"
    /\ LET a == Head(batch)
       IN  CASE a.type = "state_changed" ->
                  /\ status' = HandleStateChanged(status, a)
                  /\ UNCHANGED << queue, pending, resumeSaved, cache, cwrites >>
             [] a.type = "read_piece" ->
                  LET r == HandleReadPiece(queue, a)
                  IN  /\ queue' = r.pieces
                      /\ pending' = ReadPieceCalls(pending, r.read_piece)
                      /\ UNCHANGED << status, resumeSaved, cache, cwrites >>
             [] a.type = "save_resume_data" ->
                  LET h == HandleSaveResumeData(cache, a, io_ok)
                  IN  /\ cache' = h.fs
                      /\ cwrites' = Written(cwrites, h.path, ResumeFile, "driver")
                      /\ resumeSaved' = (resumeSaved \/ h.set_value)
                      /\ UNCHANGED << status, queue, pending >>
             [] OTHER ->
                  UNCHANGED << status, queue, pending, resumeSaved, cache, cwrites >>
    /\ IF EndsRun(Head(batch))
       THEN /\ batch' = <<>>
            /\ pcDrv' = "returned"
       ELSE /\ batch' = Tail(batch)
            /\ pcDrv' = IF Tail(batch) = <<>> THEN "poll" ELSE "dispatch"
    /\ UNCHANGED << layout, keep_files, pcCons, prio, stopped, engTorrent, engState,
                    engPaused, alerts, resumeReq, dht, selOff, nSeeks, delivered,
                    b_eof, i_pos, nDeadline, nErrors >>
    /\ UNCHANGED << openOnly, lockVars >>

\* The body of the loop, every file written by it being opened with success.
Run_Dispatch == Dispatch(TRUE)

\* The body of the loop, the file being opened with or without success.
Run_DispatchIo == \E io_ok \in BOOLEAN : Dispatch(io_ok)

(***************************************************************************)
(* The destructor, ~TorrentAccess, with SaveSessionStates inlined, step by *)
(* step on the consumer thread.  The handle is valid (the torrent was      *)
(* added by StartDownload).                                                *)
(***************************************************************************)
\* DtorNext with a slip: the resume-saved signal is not awaited.
DtorNext_NoWait(pc, keep) ==
    CASE pc = "idle"         -> "dtor_async"
      [] pc = "dtor_async"   -> IF keep THEN "dtor_request" ELSE "dtor_dht"
      [] pc = "dtor_request" -> "dtor_dht"
      [] pc = "dtor_wait"    -> "dtor_dht"
      [] pc = "dtor_dht"     -> "dtor_remove"
      [] pc = "dtor_remove"  -> "dtor_stop"
      [] pc = "dtor_stop"    -> "dtor_join"
      [] pc = "dtor_join"    -> "destroyed"
      [] OTHER               -> pc

\* DtorNext with a slip: the stop flag is set once the resume data were
\* asked for, before the waits.
DtorNext_StopEarly(pc, keep) ==
    CASE pc = "idle"         -> "dtor_async"
      [] pc = "dtor_async"   -> IF keep THEN "dtor_request" ELSE "dtor_dht"
      [] pc = "dtor_request" -> "dtor_stop"
      [] pc = "dtor_stop"    -> "dtor_wait"
      [] pc = "dtor_wait"    -> "dtor_dht"
      [] pc = "dtor_dht"     -> "dtor_remove"
      [] pc = "dtor_remove"  -> "dtor_join"
      [] pc = "dtor_join"    -> "destroyed"
      [] OTHER               -> pc

\* DtorNext with a slip: the torrent is removed before the wait for the
\* DHT-state save.
DtorNext_RemoveFirst(pc, keep) ==
    CASE pc = "idle"         -> "dtor_async"
      [] pc = "dtor_async"   -> IF keep THEN "dtor_request" ELSE "dtor_remove"
      [] pc = "dtor_request" -> "dtor_wait"
      [] pc = "dtor_wait"    -> "dtor_remove"
      [] pc = "dtor_remove"  -> "dtor_dht"
      [] pc = "dtor_dht"     -> "dtor_stop"
      [] pc = "dtor_stop"    -> "dtor_join"
      [] pc = "dtor_join"    -> "destroyed"
      [] OTHER               -> pc

\* The order of the destructor's steps: the step that follows each.
DtorNext(pc, keep) ==
    CASE pc = "idle"         -> "dtor_async"      \* session_.pause() done
      [] pc = "dtor_async"   -> IF keep THEN "dtor_request" ELSE "dtor_dht"
      [] pc = "dtor_request" -> "dtor_wait"
      [] pc = "dtor_wait"    -> "dtor_dht"
      [] pc = "dtor_dht"     -> "dtor_remove"
      [] pc = "dtor_remove"  -> "dtor_stop"
      [] pc = "dtor_stop"    -> "dtor_join"
      [] pc = "dtor_join"    -> "destroyed"
      [] OTHER               -> pc

\* handle_.is_valid(), the outcomes it can have when the destructor reads
\* it.  The handle StartDownload got from add_torrent is valid; a handle
\* never assigned, or assigned by an add_torrent that failed, is not.  The
\* handle RetrieveTorrentMetadata leaves names a torrent the session was
\* told to remove: it is valid for as long as the engine keeps the torrent
\* object, which nothing in the program waits for.
IsValid(pc, t) ==
    CASE t = "added"                                  -> { TRUE }
      [] t = "removed" /\ pc \in { "browse", "browsed" } -> BOOLEAN
      [] OTHER                                        -> { FALSE }

\* The read of "keep-files", session_.pause() and the test of the handle:
\* with a handle that is not valid the destructor goes on to stopped_ = true.
\* It runs on an instance that streams, that browses, or whose StartDownload
\* has failed.
Dtor_Pause ==
    /\ \/ pcCons = "idle"
       \/ pcCons \in { "browse", "browsed" } /\ pcDrv = "none"
    /\ keep_files' \in BOOLEAN
    /\ engPaused' = TRUE
    /\ \E valid \in IsValid(pcCons, engTorrent) :
          pcCons' = IF valid THEN DtorNext("idle", keep_files') ELSE "dtor_stop"
    /\ UNCHANGED << layout, pcDrv, queue, prio, status, stopped,
                    engTorrent, engState, pending, alerts, batch, resumeReq,
                    resumeSaved, dht, cache, selOff, nSeeks, delivered, b_eof, i_pos,
                    nDeadline, nErrors >>
    /\ UNCHANGED openVars

\* SaveSessionStates: std::async of the DHT-state save (it may throw system_error).
Dtor_Async ==
    /\ pcCons = "dtor_async"
    /\ IF keep_files
       THEN dht' \in { "running", "nolaunch" }
       ELSE dht' = "deferred"
    /\ pcCons' = DtorNext(pcCons, keep_files)
    /\ UNCHANGED << layout, keep_files, pcDrv, queue, prio, status, stopped,
                    engTorrent, engState, engPaused, pending, alerts, batch, resumeReq,
                    resumeSaved, cache, selOff, nSeeks, delivered, b_eof, i_pos,
                    nDeadline, nErrors >>
    /\ UNCHANGED openVars

\* The task itself, on its own thread: save_state and CacheSave("dht_state.dat").
DhtSave ==
    /\ dht = "running"
    /\ dht' = "done"
    /\ LET r == CacheSave(cache_dir, cache, DhtFile, DhtState, TRUE)
       IN  /\ cache' = r.fs
           /\ cwrites' = Written(cwrites, r.path, DhtFile, "dht")
    /\ UNCHANGED << layout, keep_files, pcCons, pcDrv, queue, prio, status,
                    stopped, engTorrent, engState, engPaused, pending, alerts, batch,
                    resumeReq, resumeSaved, selOff, nSeeks, delivered, b_eof, i_pos,
                    nDeadline, nErrors >>
    /\ UNCHANGED << openOnly, lockVars >>

\* SaveSessionStates: handle_.save_resume_data(flush_disk_cache)
Dtor_Request ==
    /\ pcCons = "dtor_request"
    /\ resumeReq' = "requested"
    /\ pcCons' = DtorNext(pcCons, keep_files)
    /\ UNCHANGED << layout, keep_files, pcDrv, queue, prio, status, stopped,
                    engTorrent, engState, engPaused, pending, alerts, batch,
                    resumeSaved, dht, cache, selOff, nSeeks, delivered, b_eof, i_pos,
                    nDeadline, nErrors >>
    /\ UNCHANGED openVars

\* SaveSessionStates: resume_data_saved.wait()
Dtor_Wait ==
    /\ pcCons = "dtor_wait"
    /\ resumeSaved
    /\ pcCons' = DtorNext(pcCons, keep_files)
    /\ UNCHANGED << layout, keep_files, pcDrv, queue, prio, status, stopped,
                    engTorrent, engState, engPaused, pending, alerts, batch, resumeReq,
                    resumeSaved, dht, cache, selOff, nSeeks, delivered, b_eof, i_pos,
                    nDeadline, nErrors >>
    /\ UNCHANGED openVars

\* SaveSessionStates: dht_state_saved.wait(), which runs a deferred task.
Dtor_DhtWait ==
    /\ pcCons = "dtor_dht"
    /\ dht # "running"
    /\ IF dht = "deferred"
       THEN LET r == CacheSave(cache_dir, cache, DhtFile, DhtState, TRUE)
            IN  /\ dht' = "done"
                /\ cache' = r.fs
                /\ cwrites' = Written(cwrites, r.path, DhtFile, "consumer")
       ELSE UNCHANGED << dht, cache, cwrites >>
    /\ pcCons' = DtorNext(pcCons, keep_files)
    /\ UNCHANGED << layout, keep_files, pcDrv, queue, prio, status, stopped,
                    engTorrent, engState, engPaused, pending, alerts, batch, resumeReq,
                    resumeSaved, selOff, nSeeks, delivered, b_eof, i_pos, nDeadline,
                    nErrors >>
    /\ UNCHANGED << openOnly, lockVars >>

\* session_.remove_torrent, with delete_files and CacheDel unless keep-files.
Dtor_Remove ==
    /\ pcCons = "dtor_remove"
    /\ IF keep_files
       THEN /\ engTorrent' = "removed"
            /\ UNCHANGED cache
       ELSE /\ engTorrent' = "deleted"
            /\ cache' = CacheDel(cache_dir, cache, TorrentFile)
    /\ pcCons' = DtorNext(pcCons, keep_files)
    /\ UNCHANGED << layout, keep_files, pcDrv, queue, prio, status, stopped,
                    engState, engPaused, pending, alerts, batch, resumeReq,
                    resumeSaved, dht, selOff, nSeeks, delivered, b_eof, i_pos, nDeadline,
                    nErrors >>
    /\ UNCHANGED openVars

\* stopped_ = true
Dtor_Stop ==
    /\ pcCons = "dtor_stop"
    /\ stopped' = TRUE
    /\ pcCons' = DtorNext(pcCons, keep_files)
    /\ UNCHANGED << layout, keep_files, pcDrv, queue, prio, status,
                    engTorrent, engState, engPaused, pending, alerts, batch, resumeReq,
                    resumeSaved, dht, cache, selOff, nSeeks, delivered, b_eof, i_pos,
                    nDeadline, nErrors >>
    /\ UNCHANGED openVars

\* thread_.join()
Dtor_Join ==
    /\ pcCons = "dtor_join"
    /\ pcDrv \in { "exited", "none" }
    /\ pcCons' = DtorNext(pcCons, keep_files)
    /\ UNCHANGED << layout, keep_files, pcDrv, queue, prio, status, stopped,
                    engTorrent, engState, engPaused, pending, alerts, batch, resumeReq,
                    resumeSaved, dht, cache, selOff, nSeeks, delivered, b_eof, i_pos,
                    nDeadline, nErrors >>
    /\ UNCHANGED openVars

(***************************************************************************)
(* Open and open(), up to the call of RetrieveTorrentMetadata or the       *)
(* choice between browsing and streaming.  A failure before the instance   *)
(* is constructed leaves p_sys null.                                       *)
(***************************************************************************)
\* Where open() goes once the metadata are there (file_at < 0 or not).
OpenBranch(idx) == IF idx < 0 THEN "browse" ELSE "constructed"

\* What Open has returned by then: browsing returns at once.
OpenReturn(idx, r) == IF idx < 0 THEN "VLC_SUCCESS" ELSE r

\* ParseURI, var_GetDownloadDir, the construction and set_parameters.
Open_Parse ==
    /\ pcCons = "open"
    /\ \E dir_ok \in BOOLEAN :
          LET r == ParseURI(location)
          IN  IF r.ret # "VLC_SUCCESS" \/ ~dir_ok
              THEN /\ ret' = "VLC_EGENERIC"
                   /\ pcCons' = "closed"
                   /\ UNCHANGED << p_sys, params, uri >>
              ELSE /\ p_sys' = "alive"
                   /\ params' = r.params
                   /\ uri' = "torrent://" \o LocationText(location)
                   /\ IF r.params.ti = <<>>
                      THEN /\ pcCons' = "retrieve"
                           /\ UNCHANGED ret
                      ELSE /\ pcCons' = OpenBranch(file_index)
                           /\ ret' = OpenReturn(file_index, ret)
    /\ UNCHANGED << layout, keep_files, pcDrv, queue, prio, status, stopped,
                    engTorrent, engState, engPaused, pending, alerts, batch,
                    resumeReq, resumeSaved, dht, cache, selOff, nSeeks, delivered,
                    b_eof, i_pos, nDeadline, nErrors >>
    /\ UNCHANGED << location, file_index, files, cache_dir, hash_static, playlist,
                    names, cret >>
    /\ UNCHANGED << lockVars, cwrites >>

(***************************************************************************)
(* RetrieveTorrentMetadata.  First the probe of the cache; on a miss, or   *)
(* on a file that does not parse, add_torrent, which may fail.  A failure  *)
(* makes Open delete the instance, whose handle is not valid.              *)
(***************************************************************************)
Retrieve_Lookup ==
    /\ pcCons = "retrieve"
    /\ hash_static' = << torrent_hash >>
    /\ names' = names \cup { TorrentFile }
    /\ LET path == CacheLookup(cache_dir, cache, TorrentFile)
           ti   == IF path = ""
                   THEN <<>>
                   ELSE ParseTorrentFile(CacheLoad(cache_dir, cache, TorrentFile))
       IN  IF ti # <<>>
           THEN /\ params' = [ params EXCEPT !.ti = ti ]
                /\ uri' = CachedUri(path)
                /\ pcCons' = OpenBranch(file_index)
                /\ ret' = OpenReturn(file_index, ret)
                /\ UNCHANGED << engTorrent, pcDrv, p_sys, engPaused, stopped >>
           ELSE \E added \in BOOLEAN :
                   IF added
                   THEN /\ engTorrent' = "added"
                        /\ pcDrv' = "poll"
                        /\ pcCons' = "retrieve_run"
                        /\ UNCHANGED << params, uri, ret, p_sys, engPaused, stopped >>
                   ELSE /\ ret' = "VLC_EGENERIC"
                        /\ p_sys' = "deleted"
                        /\ pcCons' = "closed"
                        /\ engPaused' = TRUE
                        /\ stopped' = TRUE
                        /\ UNCHANGED << params, uri, engTorrent, pcDrv >>
    /\ UNCHANGED << layout, keep_files, queue, prio, status, engState, pending,
                    alerts, batch, resumeReq, resumeSaved, dht, cache, selOff,
                    nSeeks, delivered, b_eof, i_pos, nDeadline, nErrors >>
    /\ UNCHANGED << location, file_index, files, cache_dir, playlist, cret >>
    /\ UNCHANGED << lockVars, cwrites >>

\* The engine starts to fetch the metadata of the magnet's torrent.
Engine_DownloadingMetadata ==
    /\ engTorrent = "added"
    /\ params.ti = <<>>
    /\ engState = "queued_for_checking"
    /\ Len(alerts) < MaxAlerts
    /\ engState' = "downloading_metadata"
    /\ alerts' = Append(alerts, StateChangedAlert("downloading_metadata"))
    /\ UNCHANGED << layout, keep_files, pcDrv, status, engTorrent, pending, batch,
                    nErrors >>
    /\ UNCHANGED consumerVars
    /\ UNCHANGED shutdownVars
    /\ UNCHANGED openVars

\* The engine has the metadata.
Engine_MetadataReceived ==
    /\ engTorrent = "added"
    /\ engState = "downloading_metadata"
    /\ Len(alerts) < MaxAlerts
    /\ engState' = "downloading"
    /\ alerts' = Append(alerts, MetadataReceivedAlert)
    /\ UNCHANGED << layout, keep_files, pcDrv, status, engTorrent, pending, batch,
                    nErrors >>
    /\ UNCHANGED consumerVars
    /\ UNCHANGED shutdownVars
    /\ UNCHANGED openVars

\* After Run has returned: remove_torrent, set_torrent_metadata, CacheSave
\* of the generated torrent file and set_uri.  When CacheSave fails Open
\* deletes the instance, whose handle_ names the removed torrent: if
\* is_valid() still holds for it, the destructor (keep-files is true here)
\* asks for resume data and waits for an alert no thread dispatches.
Retrieve_Save ==
    /\ pcCons = "retrieve_run"
    /\ pcDrv = "returned"
    /\ pcDrv' = "none"
    /\ engTorrent' = "removed"
    /\ engState' = "queued_for_checking"
    /\ names' = names \cup { TorrentFile }
    /\ params' = [ params EXCEPT !.ti = << params.info_hash >> ]
    /\ \E io_ok \in BOOLEAN :
          LET r == CacheSave(cache_dir, cache, TorrentFile,
                             TorrentEntry(params.info_hash), io_ok)
          IN  /\ cache' = r.fs
              /\ cwrites' = Written(cwrites, r.path, TorrentFile, "consumer")
              /\ IF r.path = ""
                 THEN /\ ret' = "VLC_EGENERIC"
                      /\ pcCons' = "closed"
                      /\ engPaused' = TRUE
                      /\ \E valid \in BOOLEAN :
                            /\ p_sys' = IF valid THEN "deleting" ELSE "deleted"
                            /\ stopped' = ~valid
                      /\ UNCHANGED uri
                 ELSE /\ uri' = CachedUri(r.path)
                      /\ pcCons' = OpenBranch(file_index)
                      /\ ret' = OpenReturn(file_index, ret)
                      /\ UNCHANGED << p_sys, engPaused, stopped >>
    /\ UNCHANGED << layout, keep_files, queue, prio, status, pending, alerts,
                    batch, resumeReq, resumeSaved, dht, selOff, nSeeks, delivered,
                    b_eof, i_pos, nDeadline, nErrors >>
    /\ UNCHANGED << location, file_index, files, cache_dir, hash_static, playlist,
                    cret >>
    /\ UNCHANGED lockVars

\* StartDownload when add_torrent fails: it returns VLC_EGENERIC, which
\* open() does not look at; open() returns VLC_SUCCESS.
StartDownload_AddFails ==
    /\ pcCons = "constructed"
    /\ hash_static' = << torrent_hash >>
    /\ names' = names \cup { ResumeFile }
    /\ pcCons' = "idle"
    /\ ret' = "VLC_SUCCESS"
    /\ UNCHANGED << layout, keep_files, pcDrv, queue, prio, status, stopped,
                    engTorrent, engState, engPaused, pending, alerts, batch,
                    resumeReq, resumeSaved, dht, cache, selOff, nSeeks, delivered,
                    b_eof, i_pos, nDeadline, nErrors >>
    /\ UNCHANGED << location, file_index, files, cache_dir, params, uri, p_sys,
                    playlist, cret >>
    /\ UNCHANGED << lockVars, cwrites >>

\* The player reads the directory of a browsed torrent.
Browse_ReadDir ==
    /\ pcCons = "browse"
    /\ playlist' = ReadDir(files, uri)
    /\ pcCons' = "browsed"
    /\ UNCHANGED << layout, keep_files, pcDrv, queue, prio, status, stopped,
                    engTorrent, engState, engPaused, pending, alerts, batch,
                    resumeReq, resumeSaved, dht, cache, selOff, nSeeks, delivered,
                    b_eof, i_pos, nDeadline, nErrors >>
    /\ UNCHANGED << location, file_index, files, cache_dir, hash_static, params,
                    uri, ret, p_sys, names, cret >>
    /\ UNCHANGED << lockVars, cwrites >>

(***************************************************************************)
(* Open: the player opens a location in a process in which earlier         *)
(* instances may have run (they may have initialised torrent_hash() and    *)
(* left torrent files, sound or not, in the cache).                        *)
(***************************************************************************)
RECURSIVE CacheOf(_, _)
CacheOf(c, h) ==
    IF h = 0
    THEN <<>>
    ELSE IF c[h] = "absent"
         THEN CacheOf(c, h - 1)
         ELSE WriteFile(CacheOf(c, h - 1), TorrentName(ToHex(h)),
                        IF c[h] = "sound" THEN Bencode(TorrentEntry(h)) ELSE "d4:info")

InitOpen ==
    /\ InitSession
    /\ layout = [ offset |-> 0, size |-> NumPieces * PieceSize, total |-> NumPieces * PieceSize ]
    /\ pcCons = "open"
    /\ location \in Locations
    /\ file_index \in { -1, 0 }
    /\ files \in FileLists
    /\ cache_dir \in { <<>>, << "/cache" >> }
    /\ hash_static \in { <<>> } \cup { << ToHex(h) >> : h \in Hashes \cup { ZeroHash } }
    /\ params = [ info_hash |-> ZeroHash, ti |-> <<>> ]
    /\ uri = ""
    /\ p_sys = "null"
    /\ cache \in { CacheOf(c, NumHashes) : c \in [ Hashes -> { "absent", "sound", "unsound" } ] }

NextOpen ==
    \/ Open_Parse
    \/ Retrieve_Lookup
    \/ Engine_DownloadingMetadata
    \/ Engine_MetadataReceived
    \/ Run_Poll
    \/ Run_Dispatch
    \/ Retrieve_Save
    \/ StartDownload_Add
    \/ StartDownload_AddFails
    \/ StartDownload_Run
    \/ Browse_ReadDir

SpecOpen == InitOpen /\ [][NextOpen]_vars

(***************************************************************************)
(* The cache operations called one after the other, in any order, with any *)
(* name and entry, with or without a cache directory; opening the file for *)
(* writing may fail.                                                       *)
(***************************************************************************)
cacheRest ==
    << layout, keep_files, pcCons, pcDrv, queue, prio, status, stopped, engTorrent,
       engState, engPaused, pending, alerts, batch, resumeReq, resumeSaved, dht,
       selOff, nSeeks, delivered, b_eof, i_pos, nDeadline, nErrors, location, file_index,
       files, cache_dir, hash_static, params, uri, ret, p_sys, playlist, names,
       lockVars, cwrites >>

Cache_Save(n, e, io_ok) ==
    /\ pcCons = "cache"
    /\ LET r == CacheSave(cache_dir, cache, n, e, io_ok)
           longer == n \in DOMAIN cache /\ Len(cache[n]) > Len(Bencode(e))
       IN  /\ cache' = r.fs
           /\ cret' = [ op |-> "save", name |-> n, io_ok |-> io_ok, result |-> r.path,
                        saved |-> IF r.path = ""
                                  THEN cret.saved
                                  ELSE [ cret.saved EXCEPT ![n] = << e >> ],
                        shrunk |-> IF r.path = ""
                                   THEN cret.shrunk
                                   ELSE IF longer
                                        THEN cret.shrunk \cup { n }
                                        ELSE cret.shrunk \ { n } ]
    /\ UNCHANGED cacheRest

Cache_Load(n) ==
    /\ pcCons = "cache"
    /\ cret' = [ cret EXCEPT !.op = "load", !.name = n, !.io_ok = TRUE,
                             !.result = CacheLoad(cache_dir, cache, n) ]
    /\ UNCHANGED cache
    /\ UNCHANGED cacheRest

Cache_Lookup(n) ==
    /\ pcCons = "cache"
    /\ cret' = [ cret EXCEPT !.op = "lookup", !.name = n, !.io_ok = TRUE,
                             !.result = CacheLookup(cache_dir, cache, n) ]
    /\ UNCHANGED cache
    /\ UNCHANGED cacheRest

Cache_Del(n) ==
    /\ pcCons = "cache"
    /\ cache' = CacheDel(cache_dir, cache, n)
    /\ cret' = [ cret EXCEPT !.op = "del", !.name = n, !.io_ok = TRUE, !.result = "",
                             !.saved = IF cache_dir = <<>>
                                       THEN cret.saved
                                       ELSE [ cret.saved EXCEPT ![n] = <<>> ],
                             !.shrunk = cret.shrunk \ { n } ]
    /\ UNCHANGED cacheRest

InitCache ==
    /\ InitSession
    /\ layout = [ offset |-> 0, size |-> NumPieces * PieceSize, total |-> NumPieces * PieceSize ]
    /\ pcCons = "cache"
    /\ location = [ kind |-> "file", hash |-> 1, valid |-> TRUE ]
    /\ file_index = 0
    /\ files = << layout.size >>
    /\ cache_dir \in { <<>>, << "/cache" >> }
    /\ hash_static = <<>>
    /\ params = [ info_hash |-> ZeroHash, ti |-> <<>> ]
    /\ uri = ""
    /\ p_sys = "null"
    /\ cache = <<>>

NextCache ==
    \/ \E n \in CacheNames, e \in Entries, io_ok \in BOOLEAN : Cache_Save(n, e, io_ok)
    \/ \E n \in CacheNames : Cache_Load(n)
    \/ \E n \in CacheNames : Cache_Lookup(n)
    \/ \E n \in CacheNames : Cache_Del(n)

SpecCache == InitCache /\ [][NextCache]_vars

(***************************************************************************)
(* Streaming: the consumer opens the stream, reads and seeks; the driver   *)
(* pumps the alerts of the engine.                                         *)
(***************************************************************************)
Next ==
    \/ StartDownload_Add
    \/ StartDownload_Run
    \/ \E o \in 0 .. layout.size : Seek(o)
    \/ ReadNextPiece_Status
    \/ ReadNextPiece_Queue
    \/ ReadNextPiece_Wait
    \/ Run_Poll
    \/ Run_Dispatch
    \/ Engine_StateChanged
    \/ \E p \in Pieces : Engine_ReadPiece(p)
    \/ \E p \in Pieces : Engine_ReadError(p)

Spec == Init /\ [][Next]_vars

(* Seek of src/access.cpp: SelectPieces(i_pos), then info.i_pos += i_pos.   *)
Seek_Add(o) ==
    /\ pcCons = "idle"
    /\ nSeeks < MaxSeeks
    /\ LET r == SelectPieces(layout, o, prio)
       IN  /\ queue' = r.pieces
           /\ prio' = r.prio
    /\ selOff' = o
    /\ i_pos' = i_pos + o
    /\ nSeeks' = nSeeks + 1
    /\ delivered' = <<>>
    /\ nDeadline' = [ i \in Pieces |-> 0 ]
    /\ UNCHANGED << b_eof, layout, keep_files, pcCons, pcDrv, status, stopped,
                    engTorrent, engState, engPaused, pending, alerts, batch,
                    resumeReq, resumeSaved, dht, cache, nErrors >>
    /\ UNCHANGED openVars

NextAccessCpp ==
    \/ StartDownload_Add
    \/ StartDownload_Run
    \/ \E o \in 0 .. layout.size : Seek_Add(o)
    \/ ReadNextPiece_Status
    \/ ReadNextPiece_Queue
    \/ ReadNextPiece_Wait
    \/ Run_Poll
    \/ Run_Dispatch
    \/ Engine_StateChanged
    \/ \E p \in Pieces : Engine_ReadPiece(p)
    \/ \E p \in Pieces : Engine_ReadError(p)

SpecAccessCpp == Init /\ [][NextAccessCpp]_vars

(***************************************************************************)
(* Shutdown: the consumer opens the stream, reads sequentially and closes  *)
(* it; the destructor runs against the driver, the engine and the          *)
(* auxiliary DHT-save task.                                                *)
(***************************************************************************)
NextShutdown ==
    \/ StartDownload_Add
    \/ StartDownload_Run
    \/ ReadNextPiece_Status
    \/ ReadNextPiece_Queue
    \/ ReadNextPiece_Wait
    \/ Dtor_Pause
    \/ Dtor_Async
    \/ Dtor_Request
    \/ Dtor_Wait
    \/ Dtor_DhtWait
    \/ Dtor_Remove
    \/ Dtor_Stop
    \/ Dtor_Join
    \/ DhtSave
    \/ Run_Poll
    \/ Run_Dispatch
    \/ Engine_StateChanged
    \/ \E p \in Pieces : Engine_ReadPiece(p)
    \/ Engine_SaveResumeData
    \/ Engine_SaveResumeDataFailed

SpecShutdown == Init /\ [][NextShutdown]_vars

(***************************************************************************)
(* Streaming without seeks, with fair scheduling: the consumer goes on     *)
(* calling ReadNextPiece, the driver goes on pumping alerts, and the       *)
(* engine answers every read request it holds; it may report read errors   *)
(* first.  The engine's state changes are not forced.                      *)
(***************************************************************************)
NextLive ==
    \/ StartDownload_Add
    \/ StartDownload_Run
    \/ ReadNextPiece_Status
    \/ ReadNextPiece_Queue
    \/ ReadNextPiece_Wait
    \/ Run_Poll
    \/ Run_Dispatch
    \/ Engine_StateChanged
    \/ \E p \in Pieces : Engine_ReadPiece(p)
    \/ \E p \in Pieces : Engine_ReadError(p)

Fairness ==
    /\ WF_vars(StartDownload_Add)
    /\ WF_vars(StartDownload_Run)
    /\ WF_vars(ReadNextPiece_Status)
    /\ WF_vars(ReadNextPiece_Queue)
    /\ WF_vars(ReadNextPiece_Wait)
    /\ WF_vars(Run_Poll)
    /\ WF_vars(Run_Dispatch)
    /\ \A p \in Pieces : WF_vars(Engine_ReadPiece(p))

SpecLive == Init /\ [][NextLive]_vars /\ Fairness

(***************************************************************************)
(* Shutdown with the head of Run's loop taken apart: the test of stopped_  *)
(* and the wait for an alert are two steps, so that the flag may be set    *)
(* between them.  wait_for_alert returns within a second; the driver and   *)
(* the join are scheduled fairly.                                          *)
(***************************************************************************)
\* LoopTest with a slip: the flag is not looked at.
LoopTest_Ignored(s) == TRUE

\* while (!stopped_)
LoopTest(s) == ~s

Run_Test ==
    /\ pcDrv = "poll"
    /\ pcDrv' = IF LoopTest(stopped) THEN "wait" ELSE "exited"
    /\ UNCHANGED << layout, keep_files, status, engTorrent, engState, pending, nErrors,
                    alerts, batch >>
    /\ UNCHANGED consumerVars
    /\ UNCHANGED shutdownVars
    /\ UNCHANGED openVars

\* wait_for_alert returned an alert: pop_alerts.
Run_Wait ==
    /\ pcDrv = "wait"
    /\ alerts # <<>>
    /\ batch' = alerts
    /\ alerts' = <<>>
    /\ pcDrv' = "dispatch"
    /\ UNCHANGED << layout, keep_files, status, engTorrent, engState, pending, nErrors >>
    /\ UNCHANGED consumerVars
    /\ UNCHANGED shutdownVars
    /\ UNCHANGED openVars

\* wait_for_alert timed out: continue.
Run_Timeout ==
    /\ pcDrv = "wait"
    /\ alerts = <<>>
    /\ pcDrv' = "poll"
    /\ UNCHANGED << layout, keep_files, status, engTorrent, engState, pending, nErrors,
                    alerts, batch >>
    /\ UNCHANGED consumerVars
    /\ UNCHANGED shutdownVars
    /\ UNCHANGED openVars

NextStop ==
    \/ StartDownload_Add
    \/ StartDownload_Run
    \/ ReadNextPiece_Status
    \/ ReadNextPiece_Queue
    \/ ReadNextPiece_Wait
    \/ Dtor_Pause
    \/ Dtor_Async
    \/ Dtor_Request
    \/ Dtor_Wait
    \/ Dtor_DhtWait
    \/ Dtor_Remove
    \/ Dtor_Stop
    \/ Dtor_Join
    \/ DhtSave
    \/ Run_Test
    \/ Run_Wait
    \/ Run_Timeout
    \/ Run_Dispatch
    \/ Engine_StateChanged
    \/ \E p \in Pieces : Engine_ReadPiece(p)
    \/ Engine_SaveResumeData
    \/ Engine_SaveResumeDataFailed

FairnessStop ==
    /\ WF_vars(Run_Test)
    /\ WF_vars(Run_Wait)
    /\ WF_vars(Run_Timeout)
    /\ WF_vars(Run_Dispatch)
    /\ WF_vars(Dtor_Join)

SpecStop == Init /\ [][NextStop]_vars /\ FairnessStop

(***************************************************************************)
(* The two mutexes.  The consumer thread (StartDownload, Seek and          *)
(* ReadNextPiece) and the driver thread (Run and its handlers) are taken   *)
(* apart at every lock, unlock and wait; each call into the engine and     *)
(* each read or write of queue_.pieces and of status_.state is recorded    *)
(* with the mutexes its thread holds at that point.                        *)
(***************************************************************************)
\* Lock with a slip: the mutex is not taken.
Lock_Skip(m, t) == m

\* std::unique_lock<std::mutex>{m} by thread t (m is free).
Lock(m, t) == t

\* Unlock with a slip: the mutex stays held at the end of the scope.
Unlock_Keep(m) == m

\* The end of the scope of a std::unique_lock.
Unlock(m) == "free"

\* A call of fn on handle_ by thread t.
EngineCall(fn, t) ==
    [ fn |-> fn, by |-> t, status_held |-> (status_mutex = t),
      queue_held |-> (queue_mutex = t) ]

\* A read ("r") or write ("w") of obj by thread t in function op.
Access(obj, kind, op, t) ==
    [ obj |-> obj, kind |-> kind, op |-> op, by |-> t,
      locked |-> (IF obj = "queue" THEN queue_mutex = t ELSE status_mutex = t),
      started |-> (pcDrv # "none") ]

sessionRest ==
    << layout, keep_files, stopped, engTorrent, engState, engPaused, alerts,
       resumeReq, resumeSaved, dht, cache, cwrites, nErrors >>

\* StartDownload: SelectPieces(0), which locks queue_.mutex for its body.
StartDownload_Select ==
    /\ pcCons = "starting"
    /\ queue_mutex = "free"
    /\ queue_mutex' = Lock(queue_mutex, "consumer")
    /\ selOff' = 0
    /\ pcCons' = "sd_select"
    /\ UNCHANGED << pcDrv, queue, prio, status, pending, batch, nSeeks, delivered,
                    b_eof, i_pos, nDeadline, status_mutex, calls, access >>
    /\ UNCHANGED sessionRest
    /\ UNCHANGED openOnly

\* The body of SelectPieces: clear, and piece_priority and emplace_back in
\* the loop; the lock's scope ends with the function.
SelectPieces_Body ==
    /\ pcCons \in { "sd_select", "sp_select" }
    /\ LET r == SelectPieces(layout, selOff, prio)
       IN  /\ queue' = r.pieces
           /\ prio' = r.prio
    /\ calls' = calls \cup
                  (IF selOff = layout.size
                   THEN {}
                   ELSE { EngineCall("piece_priority", "consumer") })
    /\ access' = access \cup { Access("queue", "w", "SelectPieces", "consumer") }
    /\ queue_mutex' = Unlock(queue_mutex)
    /\ IF pcCons = "sd_select"
       THEN /\ pcCons' = "sd_state"
            /\ UNCHANGED << nSeeks, delivered, nDeadline, i_pos >>
       ELSE /\ pcCons' = "idle"
            /\ i_pos' = selOff
            /\ nSeeks' = nSeeks + 1
            /\ delivered' = <<>>
            /\ nDeadline' = [ i \in Pieces |-> 0 ]
    /\ UNCHANGED << pcDrv, status, pending, batch, selOff, b_eof, status_mutex >>
    /\ UNCHANGED sessionRest
    /\ UNCHANGED openOnly

\* status_.state = handle_.status().state
StartDownload_State ==
    /\ pcCons = "sd_state"
    /\ status' = engState
    /\ access' = access \cup { Access("status", "w", "StartDownload", "consumer") }
    /\ pcCons' = "sd_thread"
    /\ UNCHANGED << pcDrv, queue, prio, pending, batch, selOff, nSeeks, delivered,
                    b_eof, i_pos, nDeadline, status_mutex, queue_mutex, calls >>
    /\ UNCHANGED sessionRest
    /\ UNCHANGED openOnly

\* thread_ = std::thread{run}
StartDownload_Thread ==
    /\ pcCons = "sd_thread"
    /\ pcDrv' = "poll"
    /\ pcCons' = "idle"
    /\ ret' = "VLC_SUCCESS"
    /\ UNCHANGED << location, file_index, files, cache_dir, hash_static, params, uri,
                    p_sys, playlist, names, cret >>
    /\ UNCHANGED << queue, prio, status, pending, batch, selOff, nSeeks, delivered,
                    b_eof, i_pos, nDeadline >>
    /\ UNCHANGED sessionRest
    /\ UNCHANGED lockVars

\* Seek(i_pos): SelectPieces(i_pos) takes queue_.mutex.
SelectPieces_Lock(o) ==
    /\ pcCons = "idle"
    /\ nSeeks < MaxSeeks
    /\ queue_mutex = "free"
    /\ queue_mutex' = Lock(queue_mutex, "consumer")
    /\ selOff' = o
    /\ pcCons' = "sp_select"
    /\ UNCHANGED << pcDrv, queue, prio, status, pending, batch, nSeeks, delivered,
                    b_eof, i_pos, nDeadline, status_mutex, calls, access >>
    /\ UNCHANGED sessionRest
    /\ UNCHANGED openOnly

\* ReadNextPiece: the inner scope takes status_.mutex.
ReadNextPiece_LockStatus ==
    /\ UNCHANGED i_pos
    /\ pcCons = "idle"
    /\ status_mutex = "free"
    /\ status_mutex' = Lock(status_mutex, "consumer")
    /\ b_eof' = FALSE
    /\ pcCons' = "rs_locked"
    /\ UNCHANGED << pcDrv, queue, prio, status, pending, batch, selOff, nSeeks,
                    delivered, nDeadline, queue_mutex, calls, access >>
    /\ UNCHANGED sessionRest
    /\ UNCHANGED openOnly

\* status_.cond.wait_for: the predicate reads status_.state under the mutex.
\* It holds and the scope ends, or the thread waits and the mutex is
\* released for the time of the wait.
ReadNextPiece_StatusTest ==
    /\ pcCons = "rs_locked"
    /\ access' = access \cup { Access("status", "r", "ReadNextPiece", "consumer") }
    /\ status_mutex' = Unlock(status_mutex)
    /\ pcCons' = IF StateWait(status) THEN "rq_want" ELSE "rs_waiting"
    /\ UNCHANGED << pcDrv, queue, prio, status, pending, batch, selOff, nSeeks,
                    delivered, b_eof, i_pos, nDeadline, queue_mutex, calls >>
    /\ UNCHANGED sessionRest
    /\ UNCHANGED openOnly

\* The wait ends (a notification or the timeout): the mutex is taken again.
ReadNextPiece_StatusWake ==
    /\ pcCons = "rs_waiting"
    /\ status_mutex = "free"
    /\ status_mutex' = Lock(status_mutex, "consumer")
    /\ pcCons' = "rs_woken"
    /\ UNCHANGED << pcDrv, queue, prio, status, pending, batch, selOff, nSeeks,
                    delivered, b_eof, i_pos, nDeadline, queue_mutex, calls, access >>
    /\ UNCHANGED sessionRest
    /\ UNCHANGED openOnly

\* The predicate after the wait: the scope ends, or if (!cond) return.
ReadNextPiece_StatusAfter ==
    /\ pcCons = "rs_woken"
    /\ access' = access \cup { Access("status", "r", "ReadNextPiece", "consumer") }
    /\ status_mutex' = Unlock(status_mutex)
    /\ pcCons' = IF StateWait(status) THEN "rq_want" ELSE "idle"
    /\ UNCHANGED << pcDrv, queue, prio, status, pending, batch, selOff, nSeeks,
                    delivered, b_eof, i_pos, nDeadline, queue_mutex, calls >>
    /\ UNCHANGED sessionRest
    /\ UNCHANGED openOnly

\* auto lock = std::unique_lock<std::mutex>{queue_.mutex}
ReadNextPiece_LockQueue ==
    /\ pcCons = "rq_want"
    /\ queue_mutex = "free"
    /\ queue_mutex' = Lock(queue_mutex, "consumer")
    /\ pcCons' = "rq_locked"
    /\ UNCHANGED << pcDrv, queue, prio, status, pending, batch, selOff, nSeeks,
                    delivered, b_eof, i_pos, nDeadline, status_mutex, calls, access >>
    /\ UNCHANGED sessionRest
    /\ UNCHANGED openOnly

\* The empty test, set_piece_deadline and requested = true, and the
\* predicate of queue_.cond.wait_for: the head has data and is moved out,
\* or the thread waits and the mutex is released for the time of the wait.
ReadNextPiece_Head ==
    /\ pcCons = "rq_locked"
    /\ IF queue = <<>>
       THEN /\ b_eof' = TRUE
            /\ pcCons' = "idle"
            /\ access' = access \cup { Access("queue", "r", "ReadNextPiece", "consumer") }
            /\ UNCHANGED << queue, pending, nDeadline, calls, delivered, i_pos >>
       ELSE LET req == ~queue[1].requested
                head == IF req THEN MarkRequested(queue[1]) ELSE queue[1]
            IN  /\ pending' = IF req THEN [pending EXCEPT ![queue[1].id] = @ + 1]
                                     ELSE pending
                /\ nDeadline' = IF req THEN [nDeadline EXCEPT ![queue[1].id] = @ + 1]
                                       ELSE nDeadline
                /\ calls' = calls \cup
                              (IF req
                               THEN { EngineCall("set_piece_deadline", "consumer") }
                               ELSE {})
                /\ access' = access \cup
                               { Access("queue", "r", "ReadNextPiece", "consumer") } \cup
                               (IF req
                                THEN { Access("queue", "w", "ReadNextPiece", "consumer") }
                                ELSE {})
                /\ IF head.data # <<>>
                   THEN /\ delivered' = Append(delivered, head)
                        /\ i_pos' = Advance(i_pos, head)
                        /\ queue' = PopFront([queue EXCEPT ![1] = head])
                        /\ pcCons' = "idle"
                   ELSE /\ queue' = [queue EXCEPT ![1] = head]
                        /\ pcCons' = "rq_waiting"
                        /\ UNCHANGED << delivered, i_pos >>
                /\ UNCHANGED b_eof
    /\ queue_mutex' = Unlock(queue_mutex)
    /\ UNCHANGED << pcDrv, prio, status, batch, selOff, nSeeks, status_mutex >>
    /\ UNCHANGED sessionRest
    /\ UNCHANGED openOnly

\* The wait ends (a notification or the timeout): the mutex is taken again.
ReadNextPiece_QueueWake ==
    /\ pcCons = "rq_waiting"
    /\ queue_mutex = "free"
    /\ queue_mutex' = Lock(queue_mutex, "consumer")
    /\ pcCons' = "rq_woken"
    /\ UNCHANGED << pcDrv, queue, prio, status, pending, batch, selOff, nSeeks,
                    delivered, b_eof, i_pos, nDeadline, status_mutex, calls, access >>
    /\ UNCHANGED sessionRest
    /\ UNCHANGED openOnly

\* The predicate after the wait: piece = std::move(next_piece) and
\* pop_front, or the return on the timeout.
ReadNextPiece_QueueAfter ==
    /\ pcCons = "rq_woken"
    /\ IF queue[1].data # <<>>
       THEN /\ delivered' = Append(delivered, queue[1])
            /\ i_pos' = Advance(i_pos, queue[1])
            /\ queue' = PopFront(queue)
            /\ access' = access \cup
                           { Access("queue", "r", "ReadNextPiece", "consumer"),
                             Access("queue", "w", "ReadNextPiece", "consumer") }
       ELSE /\ access' = access \cup { Access("queue", "r", "ReadNextPiece", "consumer") }
            /\ UNCHANGED << delivered, i_pos, queue >>
    /\ queue_mutex' = Unlock(queue_mutex)
    /\ pcCons' = "idle"
    /\ UNCHANGED << pcDrv, prio, status, pending, batch, selOff, nSeeks, b_eof,
                    nDeadline, status_mutex, calls >>
    /\ UNCHANGED sessionRest
    /\ UNCHANGED openOnly

\* The position of Run after the alert at the head of the batch.
AfterAlert(b) == IF Tail(b) = <<>> THEN "poll" ELSE "dispatch"

\* HandleStateChanged: a known state, the lock of status_.mutex.
HandleStateChanged_Lock ==
    /\ pcDrv = "dispatch"
    /\ Head(batch).type = "state_changed"
    /\ status_mutex = "free"
    /\ status_mutex' = Lock(status_mutex, "driver")
    /\ pcDrv' = "hs_locked"
    /\ UNCHANGED << pcCons, queue, prio, status, pending, batch, selOff, nSeeks,
                    delivered, b_eof, i_pos, nDeadline, queue_mutex, calls, access >>
    /\ UNCHANGED sessionRest
    /\ UNCHANGED openOnly

\* status_.state = a->state; notify_one; the scope ends.
HandleStateChanged_Write ==
    /\ pcDrv = "hs_locked"
    /\ status' = HandleStateChanged(status, Head(batch))
    /\ access' = access \cup { Access("status", "w", "HandleStateChanged", "driver") }
    /\ status_mutex' = Unlock(status_mutex)
    /\ batch' = Tail(batch)
    /\ pcDrv' = AfterAlert(batch)
    /\ UNCHANGED << pcCons, queue, prio, pending, selOff, nSeeks, delivered, b_eof, i_pos,
                    nDeadline, queue_mutex, calls >>
    /\ UNCHANGED sessionRest
    /\ UNCHANGED openOnly

\* HandleReadPiece, a null buffer: handle_.read_piece(a->piece); return.
HandleReadPiece_Retry ==
    /\ pcDrv = "dispatch"
    /\ Head(batch).type = "read_piece"
    /\ Head(batch).buffer = <<>>
    /\ pending' = ReadPieceCalls(pending, HandleReadPiece(queue, Head(batch)).read_piece)
    /\ calls' = calls \cup { EngineCall("read_piece", "driver") }
    /\ batch' = Tail(batch)
    /\ pcDrv' = AfterAlert(batch)
    /\ UNCHANGED << pcCons, queue, prio, status, selOff, nSeeks, delivered, b_eof, i_pos,
                    nDeadline, status_mutex, queue_mutex, access >>
    /\ UNCHANGED sessionRest
    /\ UNCHANGED openOnly

\* HandleReadPiece, a buffer: the lock of queue_.mutex.
HandleReadPiece_Lock ==
    /\ pcDrv = "dispatch"
    /\ Head(batch).type = "read_piece"
    /\ Head(batch).buffer # <<>>
    /\ queue_mutex = "free"
    /\ queue_mutex' = Lock(queue_mutex, "driver")
    /\ pcDrv' = "hr_locked"
    /\ UNCHANGED << pcCons, queue, prio, status, pending, batch, selOff, nSeeks,
                    delivered, b_eof, i_pos, nDeadline, status_mutex, calls, access >>
    /\ UNCHANGED sessionRest
    /\ UNCHANGED openOnly

\* find_if, the copy of the bytes and notify_one; the scope ends.
HandleReadPiece_Fill ==
    /\ pcDrv = "hr_locked"
    /\ LET r == HandleReadPiece(queue, Head(batch))
       IN  /\ queue' = r.pieces
           /\ pending' = ReadPieceCalls(pending, r.read_piece)
           /\ calls' = calls \cup
                         (IF r.read_piece = {}
                          THEN {}
                          ELSE { EngineCall("read_piece", "driver") })
           /\ access' = access \cup
                          { Access("queue", "r", "HandleReadPiece", "driver") } \cup
                          (IF r.pieces = queue
                           THEN {}
                           ELSE { Access("queue", "w", "HandleReadPiece", "driver") })
    /\ queue_mutex' = Unlock(queue_mutex)
    /\ batch' = Tail(batch)
    /\ pcDrv' = AfterAlert(batch)
    /\ UNCHANGED << pcCons, prio, status, selOff, nSeeks, delivered, b_eof, i_pos,
                    nDeadline, status_mutex >>
    /\ UNCHANGED sessionRest
    /\ UNCHANGED openOnly

\* One torrent layout: the file starts in piece 0 and ends in the last piece.
LockLayout ==
    [ offset |-> 1, size |-> NumPieces * PieceSize - 2, total |-> NumPieces * PieceSize ]

InitLock ==
    /\ Init
    /\ layout = LockLayout
    /\ keep_files = TRUE

NextLock ==
    \/ StartDownload_Add
    \/ StartDownload_Select
    \/ SelectPieces_Body
    \/ StartDownload_State
    \/ StartDownload_Thread
    \/ \E o \in 0 .. layout.size : SelectPieces_Lock(o)
    \/ ReadNextPiece_LockStatus
    \/ ReadNextPiece_StatusTest
    \/ ReadNextPiece_StatusWake
    \/ ReadNextPiece_StatusAfter
    \/ ReadNextPiece_LockQueue
    \/ ReadNextPiece_Head
    \/ ReadNextPiece_QueueWake
    \/ ReadNextPiece_QueueAfter
    \/ Run_Poll
    \/ HandleStateChanged_Lock
    \/ HandleStateChanged_Write
    \/ HandleReadPiece_Retry
    \/ HandleReadPiece_Lock
    \/ HandleReadPiece_Fill
    \/ Engine_StateChanged
    \/ \E p \in Pieces : Engine_ReadPiece(p)
    \/ \E p \in Pieces : Engine_ReadError(p)

SpecLock == InitLock /\ [][NextLock]_vars

(***************************************************************************)
(* Definitions used by the properties.                                     *)
(***************************************************************************)
\* The bytes of the selected file from offset o to its end.
FileBytes(l, o) == [ k \in 1 .. (l.size - o) |-> l.offset + o + k - 1 ]

RECURSIVE ConcatData(_)
ConcatData(ps) == IF ps = <<>> THEN <<>> ELSE ps[1].data[1] \o ConcatData(Tail(ps))

\* The bytes delivered since the most recent SelectPieces, in order.
DeliveredBytes == ConcatData(delivered)

IsPrefix(s, t) == Len(s) <= Len(t) /\ SubSeq(t, 1, Len(s)) = s

\* The bytes (id, offset, length) names: length bytes of piece id from offset on.
RangeBytes(p) == [ k \in 1 .. p.length |-> p.id * PieceSize + p.offset + k - 1 ]

\* The pieces that hold a byte of the selected file at offset o or after it.
SuffixPieces(o) ==
    { i \in Pieces : \E b \in o .. (layout.size - 1) : (layout.offset + b) \div PieceSize = i }

\* A step in which ReadNextPiece returns eof = true.
ReturnsEof == pcCons = "rnp_queue" /\ pcCons' = "idle"

\* A step in which ReadNextPiece returns a Piece with data.
ReturnsData == pcCons = "rnp_wait" /\ Len(delivered') = Len(delivered) + 1

\* A step in which the driver dispatches the alert a.
Dispatches(a) == pcDrv = "dispatch" /\ Head(batch) = a /\ batch' = Tail(batch)

(***************************************************************************)
(* C1. Sequential delivery: the Pieces ReadNextPiece has returned with     *)
(* data since the most recent SelectPieces(o) have consecutive increasing  *)
(* ids, each holds the bytes its (id, offset, length) names, and together  *)
(* they are the selected file's bytes from o on, without gap or overlap;   *)
(* when eof = true is returned they are all of the file's bytes [o, size). *)
(***************************************************************************)
C1_SequentialDelivery ==
    /\ [](/\ \A k \in 1 .. Len(delivered) : delivered[k].data = << RangeBytes(delivered[k]) >>
          /\ \A k \in 1 .. (Len(delivered) - 1) : delivered[k + 1].id = delivered[k].id + 1
          /\ IsPrefix(DeliveredBytes, FileBytes(layout, selOff)))
    /\ [][ReturnsEof => DeliveredBytes = FileBytes(layout, selOff)]_vars

\* After a seek into a file that starts inside a piece, several pieces were
\* delivered, they are the whole rest of the file, and eof was reported.
C1_Witness ==
    /\ nSeeks = 1
    /\ selOff > 0
    /\ layout.offset % PieceSize # 0
    /\ Len(delivered) >= 2
    /\ DeliveredBytes = FileBytes(layout, selOff)
    /\ b_eof

(***************************************************************************)
(* C2. After SelectPieces(o) with o < size, the first Piece returned with  *)
(* data is the block that holds file byte o: its id and offset are those   *)
(* of byte o in the torrent, and its first byte is byte o of the file.     *)
(***************************************************************************)
C2_FirstBlockAfterSelect ==
    (delivered # <<>> /\ selOff < layout.size) =>
        /\ delivered[1].id = (layout.offset + selOff) \div PieceSize
        /\ delivered[1].offset = (layout.offset + selOff) % PieceSize
        /\ delivered[1].data[1][1] = layout.offset + selOff

\* The first block after a seek was delivered while the request made for it
\* after the seek is still unanswered: its data came from an event that was
\* requested before the seek.
C2_Witness ==
    /\ nSeeks = 1
    /\ selOff > 0
    /\ nErrors = 0
    /\ Len(delivered) = 1
    /\ pending[delivered[1].id] >= 1

(***************************************************************************)
(* C3. Priority exclusivity: once SelectPieces(o) has returned, the pieces *)
(* that hold a byte of [o, size) of the selected file have priority 7 and  *)
(* all other pieces have priority 0, also after repeated calls and for     *)
(* o = size.                                                               *)
(***************************************************************************)
C3_PriorityExclusivity ==
    (pcCons \notin { "constructed", "starting" }) =>
        \A i \in Pieces : prio[i] = IF i \in SuffixPieces(selOff) THEN 7 ELSE 0

(***************************************************************************)
(* C4. At most one request: since the most recent SelectPieces, which      *)
(* created the queue's entries, set_piece_deadline was called at most once *)
(* for each piece.                                                         *)
(***************************************************************************)
C4_AtMostOneRequest == \A i \in Pieces : nDeadline[i] <= 1

\* ReadNextPiece is called again on an entry an earlier call requested and
\* timed out on.
C4_Witness ==
    /\ pcCons = "rnp_queue"
    /\ queue # <<>>
    /\ queue[1].requested
    /\ queue[1].data = <<>>
    /\ nDeadline[queue[1].id] = 1

(***************************************************************************)
(* C5. Idempotent fill: in every queue state, for every read_piece event   *)
(* with a buffer (whatever the buffer holds), HandleReadPiece applied      *)
(* twice leaves the queue as HandleReadPiece applied once, and an entry    *)
(* that has data keeps it.                                                 *)
(***************************************************************************)
\* Another buffer for piece p, of the same size.
OtherBytes(p) == [ k \in 1 .. PieceLen(layout, p) |-> 0 - k ]

BufferEvents ==
    UNION { { ReadPieceAlert(p, << b >>) : b \in { PieceBytes(layout, p), OtherBytes(p) } } :
            p \in Pieces }

C5_IdempotentFill ==
    \A a \in BufferEvents :
        LET once == HandleReadPiece(queue, a).pieces
        IN  /\ HandleReadPiece(once, a).pieces = once
            /\ Len(once) = Len(queue)
            /\ \A k \in 1 .. Len(queue) :
                  /\ queue[k].data # <<>> => once[k] = queue[k]
                  /\ once[k].requested = queue[k].requested

\* The driver is about to dispatch an event with a buffer for an entry that
\* already has data, while another entry has none.
C5_Witness ==
    /\ pcDrv = "dispatch"
    /\ Head(batch).type = "read_piece"
    /\ Head(batch).buffer # <<>>
    /\ FindPiece(queue, Head(batch).piece) # 0
    /\ queue[FindPiece(queue, Head(batch).piece)].data # <<>>
    /\ \E k \in 1 .. Len(queue) : queue[k].data = <<>>

(***************************************************************************)
(* C6. Bounded queue: the queue is never longer than the number of pieces  *)
(* that hold bytes of the selected file from the most recent SelectPieces  *)
(* offset on; a ReadNextPiece that returns data shortens it by exactly     *)
(* one; only SelectPieces makes it longer.                                 *)
(***************************************************************************)
C6_BoundedQueue ==
    /\ [](Len(queue) <= Cardinality(SuffixPieces(selOff)))
    /\ [][ReturnsData => Len(queue') = Len(queue) - 1]_vars
    /\ [][Len(queue') > Len(queue) => (pcCons = "starting" \/ nSeeks' = nSeeks + 1)]_vars

\* After a seek the queue was as long as the bound allows, and one piece
\* has been popped since.
C6_Witness ==
    /\ nSeeks = 1
    /\ Len(delivered) = 1
    /\ Len(queue) >= 1
    /\ Len(queue) = Cardinality(SuffixPieces(selOff)) - 1

C10_ReadErrorRetry ==
    /\ [](\A p \in Pieces :
            LET r == HandleReadPiece(queue, ReadPieceAlert(p, <<>>))
            IN  r.pieces = queue /\ ~r.notify /\ r.read_piece = {p})
    /\ [][\A p \in Pieces :
            Dispatches(ReadPieceAlert(p, <<>>)) =>
                /\ queue' = queue
                /\ pending' = [pending EXCEPT ![p] = @ + 1]]_vars
    /\ [][\A p \in Pieces :
            (Dispatches(ReadPieceAlert(p, << PieceBytes(layout, p) >>)) /\ FindPiece(queue, p) # 0) =>
                queue'[FindPiece(queue, p)].data # <<>>]_vars

\* Without a seek, a requested piece had a read error, every request has
\* been answered, and all the pieces of the file were delivered.
C10_Witness ==
    /\ nSeeks = 0
    /\ nErrors = 1
    /\ \A p \in Pieces : pending[p] = 0
    /\ alerts = <<>> /\ batch = <<>>
    /\ delivered # <<>>
    /\ DeliveredBytes = FileBytes(layout, 0)
    /\ b_eof

(***************************************************************************)
(* C11. A read_piece event with a buffer for a piece that has no entry in  *)
(* the queue is dropped: HandleReadPiece leaves the queue as it is, does   *)
(* not notify queue_.cond and calls nothing of the engine, so the dispatch *)
(* changes neither the queue nor the engine's pending reads or priorities. *)
(***************************************************************************)
NotQueued(p) == \A k \in 1 .. Len(queue) : queue[k].id # p

C11_UnqueuedPieceDropped ==
    /\ [](\A a \in BufferEvents :
            NotQueued(a.piece) =>
                HandleReadPiece(queue, a) =
                    [ pieces |-> queue, notify |-> FALSE, read_piece |-> {} ])
    /\ [][\A a \in BufferEvents :
            (Dispatches(a) /\ NotQueued(a.piece)) =>
                /\ queue' = queue
                /\ pending' = pending
                /\ prio' = prio
                /\ status' = status]_vars

\* After a seek has dropped a requested piece from the queue, the driver is
\* about to dispatch the engine's answer for that piece, with its buffer.
C11_Witness ==
    /\ nSeeks = 1
    /\ queue # <<>>
    /\ pcDrv = "dispatch"
    /\ Head(batch).type = "read_piece"
    /\ Head(batch).buffer # <<>>
    /\ NotQueued(Head(batch).piece)

(***************************************************************************)
(* C12. Streaming progress: with fair scheduling of the consumer and the   *)
(* driver and an engine that answers every read request, if the Status     *)
(* state eventually stays readable then the consumer, calling              *)
(* ReadNextPiece again and again without a further SelectPieces,           *)
(* eventually has received every piece of the queue, that is all the bytes *)
(* of the file, and is then told eof = true.                               *)
(***************************************************************************)
C12_StreamingProgress ==
    (<>[]Readable(status)) =>
        <>(/\ b_eof
           /\ queue = <<>>
           /\ DeliveredBytes = FileBytes(layout, selOff))

\* A file that spans all the pieces was read to its end although a read
\* error occurred and the torrent is still downloading.
C12_Witness ==
    /\ b_eof
    /\ pcCons = "idle"
    /\ queue = <<>>
    /\ Len(delivered) = NumPieces
    /\ nErrors = MaxErrors
    /\ engState = "downloading"
    /\ status = "downloading"

(***************************************************************************)
(* C8. Teardown terminates: a destructor that has begun is never blocked   *)
(* for good; in every state before its end some thread can still take a    *)
(* step (and so, under fair scheduling, the destructor completes), also    *)
(* when the engine answers save_resume_data with a failure.                *)
(***************************************************************************)
DtorSteps ==
    { "dtor_async", "dtor_request", "dtor_wait", "dtor_dht", "dtor_remove",
      "dtor_stop", "dtor_join" }

C8_TeardownTerminates == (pcCons \in DtorSteps) => ENABLED NextShutdown

(***************************************************************************)
(* C9. Shutdown ordering, as claimed: with keep-files = true the engine is *)
(* paused, the torrent removed and the driver joined only after            *)
(* save_resume_data was requested, the DHT-state save was started and the  *)
(* resume-saved signal was received.                                       *)
(***************************************************************************)
C9_ShutdownOrdering ==
    (keep_files /\ (engPaused \/ engTorrent \in { "removed", "deleted" } \/ pcCons = "destroyed")) =>
        (resumeReq # "none" /\ dht # "none" /\ resumeSaved)

(***************************************************************************)
(* C9, amended. With keep-files = true the engine is paused first; the     *)
(* DHT-state save is launched and save_resume_data is requested after      *)
(* that; the torrent is removed only after the resume-saved signal was     *)
(* received and the DHT-state save is over; the stop flag is set after the *)
(* removal and the driver is joined after the stop flag is set.            *)
(***************************************************************************)
C9_PauseThenSaveThenRemove ==
    (keep_files /\ pcCons \notin { "constructed", "starting" }) =>
        /\ (dht # "none" \/ resumeReq # "none") => engPaused
        /\ resumeReq # "none" => dht # "none"
        /\ engTorrent \in { "removed", "deleted" } =>
              (resumeReq # "none" /\ resumeSaved /\ dht \in { "done", "nolaunch" })
        /\ stopped => engTorrent = "removed"
        /\ pcCons = "destroyed" => (stopped /\ pcDrv = "exited")

\* A destructor with keep-files = true has completed, the resume data are
\* in the cache and the DHT state was saved by the auxiliary task.
C9_Witness ==
    /\ pcCons = "destroyed"
    /\ keep_files
    /\ resumeSaved
    /\ ResumeFile \in DOMAIN cache
    /\ dht = "done"

(***************************************************************************)
(* C13. Whenever RetrieveTorrentMetadata has returned success, from the    *)
(* cache or from the network, the instance has torrent metadata and the    *)
(* public URI is "torrent://" followed by the path, in the cache           *)
(* directory, of the .torrent file named by torrent_hash(); that file is   *)
(* in the cache and parses to the metadata the instance holds.             *)
(***************************************************************************)
RetrieveReturnedSuccess ==
    /\ location.kind = "magnet"
    /\ p_sys = "alive"
    /\ pcCons \in { "browse", "browsed", "constructed", "starting", "idle" }

WarmCache ==
    /\ cache_dir # <<>>
    /\ TorrentFile \in DOMAIN cache
    /\ ParseTorrentFile(cache[TorrentFile]) # <<>>

C15_ParseURIOutput ==
    (pcCons # "open") =>
        IF ParseURI(location).ret = "VLC_SUCCESS"
        THEN /\ (ParseURI(location).params.ti # <<>>) <=> (location.kind # "magnet")
             /\ (p_sys # "null") => (params.info_hash = location.hash)
        ELSE ret = "VLC_EGENERIC"

(***************************************************************************)
(* C16, as claimed.  Open has never returned success in stream mode        *)
(* (torrent-file-index >= 0) with no torrent added to the engine or no     *)
(* driver thread running.                                                  *)
(***************************************************************************)
C16_NoSuccessWithoutTorrent ==
    (ret = "VLC_SUCCESS" /\ file_index >= 0) =>
        /\ engTorrent = "added"
        /\ pcDrv # "none"

(***************************************************************************)
(* C17, as claimed.  After ReadDir the playlist holds exactly one item per *)
(* file of the torrent, the item of file i carrying the option             *)
(* torrent-file-index=i, and the items are in non-increasing order of the  *)
(* sizes of their files, whatever the sizes are, equal ones included.      *)
(***************************************************************************)
ItemFile(item) ==
    CHOOSE i \in 1 .. MaxFiles : item.option = "torrent-file-index=" \o to_string(i - 1)

C17_ReadDirListsAllFiles ==
    (pcCons = "browsed") =>
        /\ Len(playlist) = Len(files)
        /\ \A i \in 1 .. Len(files) :
              Cardinality({ k \in 1 .. Len(playlist) :
                              playlist[k] = [ uri |-> uri,
                                              option |-> "torrent-file-index=" \o to_string(i - 1) ] }) = 1
        /\ \A k \in 1 .. Len(playlist) - 1 :
              files[ItemFile(playlist[k])] >= files[ItemFile(playlist[k + 1])]

C20_CacheNamesOwnHash ==
    \A n \in names :
        n \in { ToHex(location.hash) \o ".torrent", ToHex(location.hash) \o ".resume" }

(***************************************************************************)
(* C19. Cache round-trip: with a cache directory configured, a CacheSave   *)
(* of entry e under name n that met no I/O error returned the path         *)
(* <cache>/n; a CacheLoad of a name returns exactly bencode(e) of the      *)
(* entry e last saved under it, also when that save replaced a longer      *)
(* file; and a CacheLookup of such a name returns the path <cache>/n.      *)
(***************************************************************************)
C19_CacheRoundTrip ==
    (cache_dir # <<>>) =>
        /\ (cret.op = "save" /\ cret.io_ok) =>
              cret.result = cache_dir[1] \o "/" \o cret.name
        /\ (cret.op = "load" /\ cret.saved[cret.name] # <<>>) =>
              cret.result = Bencode(cret.saved[cret.name][1])
        /\ (cret.op = "lookup" /\ cret.saved[cret.name] # <<>>) =>
              cret.result = cache_dir[1] \o "/" \o cret.name

\* A load of a name whose last save wrote less than the file held before.
C19_Witness ==
    /\ cache_dir # <<>>
    /\ cret.op = "load"
    /\ cret.name \in cret.shrunk
    /\ cret.saved[cret.name] = << IntEntry(0) >>
    /\ cret.result = "i0e"

(***************************************************************************)
(* C22. RetrieveTorrentMetadata returns failure when add_torrent is        *)
(* rejected, and then Run was never entered and no alert was popped, and   *)
(* when the generated torrent file could not be written to the cache; in   *)
(* both cases the public URI is what it was before the call.               *)
(***************************************************************************)
TorrentFileWritten ==
    /\ cache_dir # <<>>
    /\ TorrentFile \in DOMAIN cache
    /\ cache[TorrentFile] = Bencode(TorrentEntry(params.info_hash))

C22_RetrieveFailure ==
    /\ [][(pcCons = "retrieve" /\ pcCons' # "retrieve" /\ params'.ti = <<>>
             /\ engTorrent' # "added") =>
            /\ ret' = "VLC_EGENERIC"
            /\ uri' = uri
            /\ pcDrv' = "none"
            /\ alerts' = alerts
            /\ batch' = <<>>]_vars
    /\ [][(pcCons = "retrieve_run" /\ pcCons' # "retrieve_run" /\ ~TorrentFileWritten') =>
            /\ ret' = "VLC_EGENERIC"
            /\ uri' = uri]_vars
    /\ [](ret = "VLC_EGENERIC" /\ p_sys # "null" =>
            uri = "torrent://" \o LocationText(location))

\* The metadata were fetched and the write to a configured cache failed.
C22_Witness ==
    /\ ret = "VLC_EGENERIC"
    /\ location.kind = "magnet"
    /\ engTorrent = "removed"
    /\ cache_dir # <<>>
    /\ params.ti # <<>>
    /\ uri = "torrent://" \o LocationText(location)

(***************************************************************************)
(* C23. During destruction the stop flag is set only after                 *)
(* SaveSessionStates has returned: the DHT-state save is over (it has      *)
(* completed, or std::async could not launch it) and, with keep-files =    *)
(* true, the resume-saved signal has been received.  So whenever the       *)
(* destructor waits for the resume data to be saved the stop flag is not   *)
(* set and the driver is in its loop, polling or dispatching alerts.       *)
(***************************************************************************)
C23_StopAfterSaves ==
    /\ stopped =>
          /\ dht \in { "done", "nolaunch" }
          /\ keep_files => (resumeReq # "none" /\ resumeSaved)
          /\ pcCons \in { "dtor_join", "destroyed" }
    /\ (pcCons \in { "dtor_request", "dtor_wait", "dtor_dht", "dtor_remove" }) =>
          /\ ~stopped
          /\ pcDrv \in { "poll", "dispatch" }

\* The destructor waits while the driver is about to dispatch the
\* save_resume_data alert.
C23_Witness ==
    /\ pcCons = "dtor_wait"
    /\ keep_files
    /\ ~stopped
    /\ ~resumeSaved
    /\ pcDrv = "dispatch"
    /\ Head(batch).type = "save_resume_data"

(***************************************************************************)
(* C27. A ReadNextPiece that returns without data (the wait for a readable *)
(* state timed out, the queue was empty, or the wait for the head's data   *)
(* timed out) leaves the queue with the same entries in the same order:    *)
(* none of its steps removes an entry, changes an id, an offset or a       *)
(* length, or takes data; the one change it may make is to set the head's  *)
(* requested flag, when it asks for the head.  The driver, meanwhile, only *)
(* fills data that are missing.                                            *)
(***************************************************************************)
InReadNextPiece == { "idle", "rnp_queue", "rnp_wait" }

ConsumerStep == pcCons' # pcCons \/ b_eof' # b_eof

C27_NoDataReturnFrame ==
    [][(pcCons \in InReadNextPiece /\ pcCons' \in InReadNextPiece
          /\ nSeeks' = nSeeks
          /\ Len(delivered') = Len(delivered)) =>
         /\ Len(queue') = Len(queue)
         /\ \A k \in 1 .. Len(queue) :
               /\ queue'[k].id = queue[k].id
               /\ queue'[k].offset = queue[k].offset
               /\ queue'[k].length = queue[k].length
               /\ queue[k].data # <<>> => queue'[k].data = queue[k].data
               /\ ConsumerStep => queue'[k].data = queue[k].data
               /\ \/ queue'[k].requested = queue[k].requested
                  \/ /\ k = 1
                     /\ pcCons = "rnp_queue"
                     /\ ~queue[k].requested
                     /\ queue'[k].requested]_vars

\* ReadNextPiece has asked for the head and returned without data.
C27_Witness ==
    /\ pcCons = "idle"
    /\ Readable(status)
    /\ queue # <<>>
    /\ queue[1].requested
    /\ queue[1].data = <<>>
    /\ ~b_eof
    /\ delivered = <<>>
    /\ nSeeks = 1

(***************************************************************************)
(* C28. Right after any SelectPieces call (the one of StartDownload and    *)
(* the one of every Seek) every entry of the queue has no data and has     *)
(* requested = false; and what is delivered after the call was cut from    *)
(* the piece with the offset and the length of the entry the call made,    *)
(* also for a piece that was queued, asked for or filled before the call.  *)
(***************************************************************************)
SelectPiecesReturns == nSeeks' = nSeeks + 1 \/ (pcCons = "starting" /\ pcCons' = "idle")

C28_SeekDiscardsBuffers ==
    /\ [][SelectPiecesReturns =>
            \A k \in 1 .. Len(queue') :
               /\ queue'[k].data = <<>>
               /\ ~queue'[k].requested]_vars
    /\ [](\A k \in 1 .. Len(delivered) :
            /\ delivered[k].data =
                  << [ j \in 1 .. delivered[k].length |->
                         delivered[k].id * PieceSize + delivered[k].offset + j - 1 ] >>
            /\ (delivered[k].id = MapFile(layout, selOff).piece) =>
                  (delivered[k].offset = MapFile(layout, selOff).start)
            /\ (delivered[k].id # MapFile(layout, selOff).piece) =>
                  (delivered[k].offset = 0))

\* After a seek into the middle of a piece that was asked for before the
\* seek: the answer to the old request is still on its way, nothing was
\* asked for since, and the queue is fresh.
C28_Witness ==
    /\ nSeeks = 1
    /\ pcCons = "idle"
    /\ queue # <<>>
    /\ queue[1].offset > 0
    /\ \A k \in 1 .. Len(queue) : queue[k].data = <<>> /\ ~queue[k].requested
    /\ \A i \in Pieces : nDeadline[i] = 0
    /\ \E k \in 1 .. Len(alerts) :
          /\ alerts[k].type = "read_piece"
          /\ alerts[k].piece = queue[1].id
          /\ alerts[k].buffer # <<>>

(***************************************************************************)
(* C29. In every reachable state the ids of the queue's entries increase   *)
(* by one from each entry to the next: strictly increasing from head to    *)
(* tail, no id twice, none skipped, whatever the interleaving of           *)
(* SelectPieces, ReadNextPiece and HandleReadPiece.                        *)
(***************************************************************************)
C29_QueueIdsConsecutive ==
    \A k \in 1 .. Len(queue) - 1 : queue[k + 1].id = queue[k].id + 1

\* After a seek and one delivery two entries are left, the second of which
\* an answer to a request made before the seek has filled.
C29_Witness ==
    /\ nSeeks = 1
    /\ Len(delivered) = 1
    /\ Len(queue) = 2
    /\ queue[1].id = delivered[1].id + 1
    /\ queue[2].data # <<>>

(***************************************************************************)
(* C30. For every placement of the file in the torrent and every offset    *)
(* SelectPieces is called with, each entry it enqueues (in the queue or    *)
(* delivered since) has 0 <= offset, length >= 1 and offset + length no    *)
(* more than the piece size, and no more than the size of its own piece;   *)
(* only the entry of the first selected piece may have offset > 0; and an  *)
(* entry's data, once set, are exactly length bytes: those of its piece    *)
(* from offset on.                                                         *)
(***************************************************************************)
PieceWellFormed(p) ==
    /\ 0 <= p.offset
    /\ p.length >= 1
    /\ p.offset + p.length <= PieceSize
    /\ p.offset + p.length <= PieceLen(layout, p.id)
    /\ p.offset > 0 => p.id = MapFile(layout, selOff).piece
    /\ p.data # <<>> =>
          /\ Len(p.data[1]) = p.length
          /\ \A j \in 1 .. p.length :
                p.data[1][j] = PieceBytes(layout, p.id)[p.offset + j]

C30_PieceBounds ==
    /\ \A k \in 1 .. Len(queue) : PieceWellFormed(queue[k])
    /\ \A k \in 1 .. Len(delivered) : PieceWellFormed(delivered[k])

\* A file that starts and ends in the middle of a piece: both entries were
\* filled and delivered.
C30_Witness ==
    /\ layout.offset % PieceSize # 0
    /\ (layout.offset + layout.size) % PieceSize # 0
    /\ Len(delivered) = 2
    /\ delivered[1].offset > 0
    /\ delivered[2].length < PieceSize
    /\ queue = <<>>

(***************************************************************************)
(* C21. Cancellation: a driver that tests the stop flag and finds it set   *)
(* leaves its loop, so that after the flag is set it pops at most one more *)
(* batch of alerts and dispatches at most one batch; and, the driver being *)
(* scheduled, once the flag is set the driver exits and the join of the    *)
(* destructor returns.                                                     *)
(***************************************************************************)
C21_StopEndsDriver ==
    /\ [][(pcDrv = "poll" /\ stopped /\ pcDrv' # pcDrv) => pcDrv' = "exited"]_vars
    /\ [][(stopped /\ pcDrv = "dispatch") => pcDrv' \in { "dispatch", "poll" }]_vars
    /\ stopped ~> (pcDrv = "exited")
    /\ (pcCons = "dtor_join") ~> (pcCons = "destroyed")

\* The flag is set while the driver is in the middle of a batch, with more
\* alerts waiting in the session.
C21_Witness ==
    /\ stopped
    /\ pcDrv = "dispatch"
    /\ Len(batch) = MaxAlerts
    /\ alerts # <<>>

(***************************************************************************)
(* C24.  Calls into the engine and the mutexes.  As stated: no thread      *)
(* calls piece_priority, set_piece_deadline or read_piece while it holds   *)
(* status_.mutex or queue_.mutex.                                          *)
(***************************************************************************)
C24_NoEngineCallUnderMutex ==
    \A c \in calls : ~c.status_held /\ ~c.queue_held

(***************************************************************************)
(* C24, as the code has it.  No call into the engine is made under         *)
(* status_.mutex.  read_piece is called by the driver with no mutex held.  *)
(* piece_priority and set_piece_deadline are called by the consumer while  *)
(* it holds queue_.mutex, and only that mutex.                             *)
(***************************************************************************)
C24_EngineCallLocks ==
    \A c \in calls :
        /\ ~c.status_held
        /\ c.fn = "read_piece" => (c.by = "driver" /\ ~c.queue_held)
        /\ c.fn \in { "piece_priority", "set_piece_deadline" } =>
              (c.by = "consumer" /\ c.queue_held)

\* Each of the three calls has been made, after the driver was started.
C24_Witness ==
    /\ pcDrv # "none"
    /\ \A f \in { "piece_priority", "set_piece_deadline", "read_piece" } :
          \E c \in calls : c.fn = f

(***************************************************************************)
(* C25.  No thread holds status_.mutex and queue_.mutex at the same time:  *)
(* neither mutex is owned by a thread that is about to take a mutex or     *)
(* that waits on a condition variable, so the consumer and the driver      *)
(* never wait for each other's mutex (no lock-order deadlock).             *)
(***************************************************************************)
C25_NoThreadHoldsBoth ==
    /\ \A t \in { "consumer", "driver" } : ~(status_mutex = t /\ queue_mutex = t)
    /\ pcCons \in { "starting", "idle", "rs_waiting", "rq_want", "rq_waiting" } =>
          (status_mutex # "consumer" /\ queue_mutex # "consumer")
    /\ pcDrv \in { "poll", "dispatch" } =>
          (status_mutex # "driver" /\ queue_mutex # "driver")

\* Both mutexes are held, by different threads.
C25_Witness ==
    /\ status_mutex = "consumer"
    /\ queue_mutex = "driver"

(***************************************************************************)
(* C26.  Once the driver thread is started, every read and every write of  *)
(* queue_.pieces is made under queue_.mutex, and every write of            *)
(* status_.state is made by the driver, in HandleStateChanged, under       *)
(* status_.mutex.  ReadNextPiece and SelectPieces never write              *)
(* status_.state.                                                          *)
(***************************************************************************)
C26_SharedStateUnderMutex ==
    \A a \in access :
        /\ (a.started /\ a.obj = "queue") => a.locked
        /\ (a.started /\ a.obj = "status" /\ a.kind = "w") =>
              (a.by = "driver" /\ a.op = "HandleStateChanged" /\ a.locked)
        /\ (a.obj = "status" /\ a.kind = "w") =>
              a.op \notin { "ReadNextPiece", "SelectPieces" }

\* With the driver running, the state was written by HandleStateChanged and
\* the queue by ReadNextPiece, SelectPieces and HandleReadPiece.
C26_Witness ==
    /\ \E a \in access : a.started /\ a.obj = "status" /\ a.kind = "w"
    /\ \A f \in { "ReadNextPiece", "SelectPieces", "HandleReadPiece" } :
          \E a \in access : a.started /\ a.obj = "queue" /\ a.kind = "w" /\ a.op = f
    /\ \E a \in access : ~a.started /\ a.obj = "status" /\ a.kind = "w"

(***************************************************************************)
(* C34. The state gate.  A ReadNextPiece call that finds Status not        *)
(* readable (downloading, finished, seeding) returns with eof = false and  *)
(* leaves the queue, the delivered blocks and the engine's requests as     *)
(* they were; the queue section is entered only from a readable Status,    *)
(* and a deadline request or a pop is made only in the queue section.      *)
(***************************************************************************)
C34_StateGate ==
    /\ [][(pcCons = "idle" /\ ConsumerStep /\ nSeeks' = nSeeks /\ ~Readable(status)) =>
            /\ pcCons' = "idle"
            /\ ~b_eof'
            /\ queue' = queue
            /\ delivered' = delivered
            /\ pending' = pending
            /\ nDeadline' = nDeadline]_vars
    /\ [][(pcCons # "rnp_queue" /\ pcCons' = "rnp_queue") =>
            (pcCons = "idle" /\ Readable(status))]_vars
    /\ [][((nSeeks' = nSeeks /\ nDeadline' # nDeadline)
             \/ Len(delivered') > Len(delivered)) =>
            pcCons \in { "rnp_queue", "rnp_wait" }]_vars

\* Between two calls: Status shows a state before downloading while the
\* engine's torrent is past it, and the head of the queue was never asked for.
C34_Witness ==
    /\ pcCons = "idle"
    /\ pcDrv # "none"
    /\ ~Readable(status)
    /\ Readable(engState)
    /\ queue # <<>>
    /\ ~queue[1].requested
    /\ delivered = <<>>

(***************************************************************************)
(* C35, as claimed.  A read_piece alert with a null buffer makes the       *)
(* driver call read_piece again only if its piece is in the queue; for a   *)
(* piece that is not queued the engine gets no new read request.           *)
(***************************************************************************)
C35_RetryOnlyIfQueued ==
    [][(/\ pcDrv = "dispatch"
        /\ batch' # batch
        /\ Head(batch).type = "read_piece"
        /\ Head(batch).buffer = <<>>
        /\ FindPiece(queue, Head(batch).piece) = 0) =>
         pending' = pending]_vars

(***************************************************************************)
(* C36. A head entry that already holds data (filled while it was behind   *)
(* the head, or before it was asked for) is handed out by the              *)
(* ReadNextPiece call that finds it: the request step keeps the data, the  *)
(* wait returns at once with that entry, which is popped, and no step of   *)
(* the driver or of the engine takes the data away in between.             *)
(***************************************************************************)
C36_FilledHeadReturned ==
    /\ [][(pcCons = "rnp_queue" /\ pcCons' # pcCons /\ queue # <<>>
             /\ queue[1].data # <<>>) =>
            /\ pcCons' = "rnp_wait"
            /\ queue'[1].data = queue[1].data
            /\ Len(queue') = Len(queue)]_vars
    /\ [][(pcCons = "rnp_wait" /\ pcCons' # pcCons /\ queue[1].data # <<>>) =>
            /\ delivered' = Append(delivered, queue[1])
            /\ queue' = Tail(queue)
            /\ ~b_eof']_vars
    /\ [][(pcCons \in { "rnp_queue", "rnp_wait" } /\ pcCons' = pcCons
             /\ queue # <<>> /\ queue[1].data # <<>>) =>
            (queue' # <<>> /\ queue'[1].data = queue[1].data)]_vars

\* ReadNextPiece is in its queue section after a seek; the head holds data
\* and was never asked for.
C36_Witness ==
    /\ pcCons = "rnp_queue"
    /\ nSeeks > 0
    /\ Len(queue) >= 2
    /\ queue[1].data # <<>>
    /\ ~queue[1].requested

(***************************************************************************)
(* C38. EOF is sticky.  eof = true is reported on an empty queue only; an  *)
(* empty queue stays empty, nothing is delivered and nothing is asked of   *)
(* the engine by the consumer until SelectPieces runs; and SelectPieces    *)
(* leaves the queue non-empty exactly when its offset is before the end    *)
(* of the file.                                                            *)
(***************************************************************************)
C38_EofSticky ==
    /\ [][(pcCons \in { "rnp_queue", "rnp_wait" } /\ pcCons' = "idle") =>
            (b_eof' <=> (queue = <<>> /\ queue' = <<>>))]_vars
    /\ [][(queue = <<>> /\ nSeeks' = nSeeks /\ pcDrv # "none") =>
            /\ queue' = <<>>
            /\ delivered' = delivered
            /\ nDeadline' = nDeadline]_vars
    /\ [][(nSeeks' # nSeeks) => (queue' # <<>> <=> selOff' < layout.size)]_vars

\* eof was reported, and a later call timed out on the state: the queue is
\* still empty after a seek to the end of the file.
C38_Witness ==
    /\ pcCons = "idle"
    /\ nSeeks > 0
    /\ selOff = layout.size
    /\ queue = <<>>
    /\ b_eof
    /\ delivered = <<>>

(***************************************************************************)
(* C37. The access position.  While streaming, info.i_pos is the offset in *)
(* the file of the first byte of the head of the queue, the next byte      *)
(* Block delivers, or the size of the file when the queue is empty.        *)
(* Seek(p) sets it to p; a delivered block moves it forward by the number  *)
(* of bytes of the block; any other step leaves it as it is.               *)
(***************************************************************************)
PieceFileOffset(p) == p.id * PieceSize + p.offset - layout.offset

C37_PositionTracksStream ==
    /\ [](pcDrv # "none" =>
            i_pos = IF queue = <<>> THEN layout.size ELSE PieceFileOffset(queue[1]))
    /\ [][nSeeks' # nSeeks => i_pos' = selOff']_vars
    /\ [][Len(delivered') > Len(delivered) =>
            /\ i_pos' = i_pos + Len(delivered'[Len(delivered')].data[1])
            /\ PieceFileOffset(delivered'[Len(delivered')]) = i_pos]_vars
    /\ [][(nSeeks' = nSeeks /\ Len(delivered') = Len(delivered)) => i_pos' = i_pos]_vars

(***************************************************************************)
(* C40. On destruction with a valid handle the DHT-state save is over      *)
(* before the torrent is removed and before the stop flag is set, in both  *)
(* modes.  With keep-files = true the save runs as an auxiliary task,      *)
(* beside the request and the wait for the resume data; with keep-files =  *)
(* false it is deferred and runs on the destructing thread, in the wait    *)
(* for it, and save_resume_data is never requested.  A save that was over  *)
(* has written "dht_state.dat"; a task that could not be launched writes   *)
(* nothing and does not hold the destructor up.                            *)
(***************************************************************************)
C40_DhtSavedBeforeRemoval ==
    /\ [](pcCons \in { "dtor_remove", "dtor_stop", "dtor_join", "destroyed" } =>
            dht \in { "done", "nolaunch" })
    /\ []((engTorrent \in { "removed", "deleted" } \/ stopped) =>
            /\ dht \in { "done", "nolaunch" }
            /\ dht = "done" <=> DhtFile \in DOMAIN cache)
    /\ [](dht = "running" =>
            (keep_files /\ pcCons \in { "dtor_request", "dtor_wait", "dtor_dht" }))
    /\ []((dht # "none" /\ ~keep_files) =>
            (resumeReq = "none" /\ dht \in { "deferred", "done" }))
    /\ [](dht = "deferred" => (~keep_files /\ pcCons = "dtor_dht"))
    /\ [][(dht = "deferred" /\ dht' # dht) =>
            (dht' = "done" /\ pcCons = "dtor_dht" /\ pcCons' = "dtor_remove")]_vars
    /\ [][(dht = "running" /\ dht' # dht) => (dht' = "done" /\ pcCons' = pcCons)]_vars
    /\ []((dht = "nolaunch" /\ pcCons = "dtor_dht") => ENABLED Dtor_DhtWait)

\* A destructor with keep-files = false has completed: the DHT state was
\* saved on the way, no resume data were asked for, the torrent and its
\* files are deleted.
C40_Witness ==
    /\ pcCons = "destroyed"
    /\ ~keep_files
    /\ dht = "done"
    /\ DhtFile \in DOMAIN cache
    /\ resumeReq = "none"
    /\ engTorrent = "deleted"
    /\ stopped

(***************************************************************************)
(* Open followed by Close: the instance open() has built, one that         *)
(* browses, one that streams or one whose StartDownload has failed, is     *)
(* destroyed, against the driver (if it runs), the engine and the          *)
(* auxiliary DHT-save task.                                                *)
(***************************************************************************)
NextClose ==
    \/ NextOpen
    \/ Dtor_Pause
    \/ Dtor_Async
    \/ Dtor_Request
    \/ Dtor_Wait
    \/ Dtor_DhtWait
    \/ Dtor_Remove
    \/ Dtor_Stop
    \/ Dtor_Join
    \/ DhtSave
    \/ Engine_SaveResumeData
    \/ Engine_SaveResumeDataFailed

SpecClose == InitOpen /\ [][NextClose]_vars

(***************************************************************************)
(* C39. Destruction of an instance whose driver was never started or has   *)
(* returned: the destructor never waits for the resume-saved signal while  *)
(* no thread runs the alert loop that delivers it.                         *)
(***************************************************************************)
C39_NoWaitWithoutDriver ==
    (pcCons = "dtor_wait" /\ ~resumeSaved) => pcDrv \in { "poll", "dispatch" }

(***************************************************************************)
(* A magnet link opened, to browse or to stream one file, and closed: Run  *)
(* is called first by RetrieveTorrentMetadata, on the consumer's thread    *)
(* (unless the cache holds the torrent file), then, to stream, by the      *)
(* thread StartDownload starts, which pumps the alerts of streaming until  *)
(* the destructor stops it.                                                *)
(***************************************************************************)
InitMagnet ==
    /\ InitOpen
    /\ location = [ kind |-> "magnet", hash |-> 1, valid |-> TRUE ]
    /\ Len(files) = 1
    /\ cache_dir # <<>>
    /\ hash_static = <<>>

NextMagnet ==
    \/ NextClose
    \/ ReadNextPiece_Status
    \/ ReadNextPiece_Queue
    \/ ReadNextPiece_Wait
    \/ Engine_StateChanged
    \/ \E p \in Pieces : Engine_ReadPiece(p)

SpecMagnet == InitMagnet /\ [][NextMagnet]_vars

(***************************************************************************)
(* C33. The driver's loop.  The thread StartDownload starts leaves the     *)
(* loop only at its head, on the stop flag: no alert makes it return, and  *)
(* every alert of a popped batch is dispatched, one after the other, down  *)
(* to the last before the next poll.  Only the Run called by               *)
(* RetrieveTorrentMetadata returns on a metadata_received alert (dropping  *)
(* the rest of its batch); the engine posts that alert only for a torrent  *)
(* added without metadata, so none reaches the streaming driver.           *)
(***************************************************************************)
Streaming == pcCons \notin { "open", "retrieve", "retrieve_run", "closed" }

HasAlert(q, t) == \E i \in 1 .. Len(q) : q[i].type = t

C33_DriverRunsUntilStopped ==
    /\ [](pcDrv = "returned" => pcCons = "retrieve_run")
    /\ [](Streaming => (~HasAlert(alerts, "metadata_received")
                        /\ ~HasAlert(batch, "metadata_received")))
    /\ [][(pcDrv \in { "poll", "dispatch" } /\ pcDrv' \notin { "poll", "dispatch" } /\ Streaming) =>
            (pcDrv = "poll" /\ stopped /\ pcDrv' = "exited" /\ batch = <<>>)]_vars
    /\ [][(pcDrv = "dispatch" /\ pcDrv' # "returned" /\ batch' # batch) =>
            (batch' = Tail(batch) /\ pcDrv' = IF batch' = <<>> THEN "poll" ELSE "dispatch")]_vars
    /\ [][(pcDrv = "poll" /\ pcDrv' = "dispatch") => (batch = <<>> /\ batch' = alerts /\ ~stopped)]_vars
    /\ [](pcDrv = "dispatch" <=> batch # <<>>)
    /\ [][(pcDrv' = "returned" /\ pcDrv # "returned") =>
            (pcCons = "retrieve_run" /\ Head(batch).type = "metadata_received")]_vars

\* The driver of an instance opened from a magnet link, which has its
\* metadata by now, is dispatching the first alert of a batch of two or more.
C33_Witness ==
    /\ engTorrent = "added"
    /\ params.ti # <<>>
    /\ TorrentFile \in DOMAIN cache
    /\ pcCons \in { "idle", "rnp_queue", "rnp_wait" }
    /\ pcDrv = "dispatch"
    /\ Len(batch) >= 2
    /\ ~stopped

(***************************************************************************)
(* Streaming of a torrent file and destruction, with a cache that may      *)
(* fail: there may be no cache directory, and the file of the resume data  *)
(* may fail to open.  The engine answers save_resume_data with a           *)
(* save_resume_data alert, with the resume data or with a null pointer.    *)
(***************************************************************************)
InitResume ==
    /\ InitSession
    /\ layout = LockLayout
    /\ pcCons = "constructed"
    /\ location = [ kind |-> "file", hash |-> 1, valid |-> TRUE ]
    /\ file_index = 0
    /\ files = << layout.size >>
    /\ cache_dir \in { <<>>, << "/cache" >> }
    /\ hash_static = << ToHex(1) >>
    /\ params = ParseURI(location).params
    /\ uri = "torrent://" \o LocationText(location)
    /\ p_sys = "alive"
    /\ cache = <<>>

NextResume ==
    \/ StartDownload_Add
    \/ StartDownload_Run
    \/ ReadNextPiece_Status
    \/ ReadNextPiece_Queue
    \/ ReadNextPiece_Wait
    \/ Dtor_Pause
    \/ Dtor_Async
    \/ Dtor_Request
    \/ Dtor_Wait
    \/ Dtor_DhtWait
    \/ Dtor_Remove
    \/ Dtor_Stop
    \/ Dtor_Join
    \/ DhtSave
    \/ Run_Poll
    \/ Run_DispatchIo
    \/ Engine_StateChanged
    \/ \E p \in Pieces : Engine_ReadPiece(p)
    \/ Engine_SaveResumeData
    \/ Engine_SaveResumeDataNull

SpecResume == InitResume /\ [][NextResume]_vars

(***************************************************************************)
(* C32. The dispatch of a save_resume_data alert fulfils the promise the   *)
(* destructor waits on, which was not fulfilled before, and nothing else   *)
(* does: the signal is given exactly once, by that event, whether the      *)
(* alert carries resume data or not and whether the resume file was        *)
(* written or not (no cache directory, or the file could not be opened).   *)
(* So once the event is dispatched the destructor's wait is satisfied, and *)
(* a destructor still waiting has the event still ahead of it, with the    *)
(* driver in its loop.                                                     *)
(***************************************************************************)
C32_SignalledOnceWhateverTheCache ==
    /\ [][(pcDrv = "dispatch" /\ Head(batch).type = "save_resume_data" /\ batch' # batch) =>
            (~resumeSaved /\ resumeSaved')]_vars
    /\ [][(resumeSaved' # resumeSaved) =>
            (pcDrv = "dispatch" /\ Head(batch).type = "save_resume_data" /\ batch' = Tail(batch))]_vars
    /\ [](resumeSaved => (resumeReq = "answered"
                          /\ ~HasAlert(alerts, "save_resume_data")
                          /\ ~HasAlert(batch, "save_resume_data")))
    /\ []((pcCons = "dtor_wait" /\ resumeSaved) => ENABLED Dtor_Wait)
    /\ []((pcCons = "dtor_wait" /\ ~resumeSaved) =>
            /\ pcDrv \in { "poll", "dispatch" }
            /\ ~stopped
            /\ resumeReq = "answered" =>
                  (HasAlert(alerts, "save_resume_data") \/ HasAlert(batch, "save_resume_data")))

\* The destructor has completed with keep-files = true and a cache
\* directory, the promise was fulfilled, and the resume file is not in the
\* cache: it could not be opened, or the alert carried no resume data.
C32_Witness ==
    /\ pcCons = "destroyed"
    /\ keep_files
    /\ cache_dir # <<>>
    /\ resumeSaved
    /\ ResumeFile \notin DOMAIN cache
    /\ DhtFile \in DOMAIN cache

(***************************************************************************)
(* C31. In the life of one instance each file of the cache is written at   *)
(* most once, and by one thread: the torrent file by the thread that       *)
(* fetches the metadata, the resume file by the driver, the DHT state by   *)
(* the auxiliary task or, deferred, by the destructing thread.  So no two  *)
(* threads ever write the same file, at the same time or otherwise.        *)
(***************************************************************************)
C31_EachKeyWrittenOnce ==
    /\ DOMAIN cwrites \subseteq { TorrentFile, ResumeFile, DhtFile }
    /\ \A n \in DOMAIN cwrites : Len(cwrites[n]) = 1
    /\ TorrentFile \in DOMAIN cwrites => cwrites[TorrentFile] = << "consumer" >>
    /\ ResumeFile \in DOMAIN cwrites => cwrites[ResumeFile] = << "driver" >>
    /\ DhtFile \in DOMAIN cwrites =>
          cwrites[DhtFile] = << IF keep_files THEN "dht" ELSE "consumer" >>
    /\ \A n \in DOMAIN cwrites : n \in DOMAIN cache \/ (n = TorrentFile /\ ~keep_files)

\* An instance opened from a magnet link has fetched the metadata, has
\* streamed and is destroyed with keep-files = true: the three files were
\* written, each by its thread.
C31_Witness ==
    /\ pcCons = "destroyed"
    /\ keep_files
    /\ DOMAIN cwrites = { TorrentFile, ResumeFile, DhtFile }
    /\ cwrites[DhtFile] = << "dht" >>
    /\ cwrites[ResumeFile] = << "driver" >>

====
